---- MODULE Spec2Model ----
(***************************************************************************)
(* HomeCraft: the MinecraftServer reconciler                                *)
(* (operator/controllers/minecraftserver_controller.go) against the        *)
(* resource store it reads and writes, with the other writers of that      *)
(* store: the REST gateway (backend/pkg/k8s/client.go), the platform's      *)
(* garbage collector and workload controllers, and operators acting on     *)
(* owned objects by hand.                                                   *)
(*                                                                         *)
(* The gateway's CreateServer request (handlers/server_handler.go) with    *)
(* its capacity check is modelled next to it, each request a sequence of   *)
(* calls to the cluster.                                                   *)
(*                                                                         *)
(* One Reconcile pass is a sequence of store calls; every store call is    *)
(* one atomic step of the model and everything between two store calls is  *)
(* part of the step that follows.  Passes for one key are serialized by    *)
(* the calling runtime, so the model holds one pass for its one key.       *)
(***************************************************************************)
EXTENDS Integers, Sequences, FiniteSets, TLC

VARIABLES
    rec,        \* the MinecraftServer record stored under the key
    objects,    \* the store's objects under the five deterministic names
    pc,         \* the position of the Reconcile pass
    m,          \* the pass's in-memory copy of the record (minecraftServer)
    idx,        \* which owned object the pass is working on (1..5)
    seen,       \* what the read-back of updateStatus has fetched so far
    ops,        \* the store calls the pass has made, with their outcomes
    result,     \* what the last finished pass returned (ctrl.Result, error)
    nextUID,    \* the UID the store gives to the next created record
    failures,   \* how many store calls have failed so far
    external,   \* how many by-hand changes of owned objects happened so far
    dirty,      \* something other than the pass wrote since the pass began
    cleanPasses,\* error-free passes in a row with no other write since the
                \* first of them began (counted up to 2)
    nodes,      \* the cluster's nodes, as the gateway's capacity check lists them
    pods,       \* the cluster's pods, of all namespaces
    servers,    \* the MinecraftServer records the gateway has stored, by name
    handlers,   \* the CreateServer requests in the gateway, each with its
                \* position and what it has read so far
    call        \* one call of a function of the program that reads no state:
                \* the function, its argument and, once it returned, its
                \* result

vars == <<rec, objects, pc, m, idx, seen, ops, result, nextUID, failures,
          external, dirty, cleanPasses, nodes, pods, servers, handlers,
          call>>

\* the state of the gateway's admission path
admissionVars == <<nodes, pods, servers, handlers>>

\* the state of the reconciler and of the store under its key
reconcilerVars == <<rec, objects, pc, m, idx, seen, ops, result, nextUID,
                    external, dirty, cleanPasses>>

----------------------------------------------------------------------------
(* Bounds of the model *)

\* records created under the key, one after the other (each gets a new UID)
MaxUID == 1
\* store calls that fail with an error other than not-found / conflict
MaxFailures == 1
\* owned objects created or deleted by hand
MaxExternal == 1
\* the values metav1.Now() takes
MaxTime == 2
\* the replicas a StatefulSet status may report
MaxReplicas == 2
\* the nodes of the cluster, its pods of other workloads, and the create
\* requests in the gateway at one time
MaxNodes == 2
MaxPods == 1
MaxRequests == 2
\* the functions that read no state are applied to: passwords of up to
\* MaxPasswordLength characters, names of up to MaxNameHead free characters
\* before a run of one letter, magnitudes up to MaxMagnitude
MaxPasswordLength == 3
MaxNameHead == 2
MaxMagnitude == 3

----------------------------------------------------------------------------
(* Program constants *)

finalizerName == "minecraftserver.homecraft.io/finalizer"
RequeueSeconds == 30
MinecraftPort == 25565
SFTPPort == 22

\* the key the model reconciles
ServerName == "srv"

----------------------------------------------------------------------------
(* The desired-state records the gateway (or kubectl) may store.  Quantity *)
(* strings are kept as text: resource.MustParse decides on them later.     *)

ValidQuantities == {"2Gi", "4Gi", "5Gi", "1Gi"}

\* resource.MustParse panics unless the text is a quantity
QuantityParses(q) == q \in ValidQuantities

RecordSpecs ==
    { [memory |-> "2Gi", storageSize |-> "5Gi",
       sftpUsername |-> "mc-srv", sftpPassword |-> "pw1",
       eula |-> TRUE, version |-> "LATEST", serverType |-> "VANILLA",
       maxPlayers |-> 20, difficulty |-> "normal", gamemode |-> "survival"],
      [memory |-> "2Gi", storageSize |-> "",
       sftpUsername |-> "mc-srv", sftpPassword |-> "pw1",
       eula |-> TRUE, version |-> "", serverType |-> "",
       maxPlayers |-> 0, difficulty |-> "", gamemode |-> ""],
      [memory |-> "", storageSize |-> "5Gi",
       sftpUsername |-> "mc-srv", sftpPassword |-> "pw1",
       eula |-> TRUE, version |-> "", serverType |-> "",
       maxPlayers |-> 0, difficulty |-> "", gamemode |-> ""] }

NoSpec == [memory |-> "", storageSize |-> "", sftpUsername |-> "",
           sftpPassword |-> "", eula |-> FALSE, version |-> "",
           serverType |-> "", maxPlayers |-> 0, difficulty |-> "",
           gamemode |-> ""]

NoStatus == [phase |-> "", message |-> "", endpoint |-> "",
             sftpEndpoint |-> "", sftpUsername |-> "", sftpPassword |-> "",
             allocatedMemory |-> "", lastUpdated |-> 0]

\* no record under the key
NoRecord == [exists |-> FALSE, uid |-> 0, finalizers |-> {},
             deleting |-> FALSE, spec |-> NoSpec, status |-> NoStatus]

\* the pass holds no copy
NoCopy == [exists |-> FALSE, uid |-> 0, finalizers |-> {},
           deleting |-> FALSE, spec |-> NoSpec, status |-> NoStatus,
           current |-> FALSE]

\* no object under a name.  owner is the controller back-reference (the
\* UID of the owning record, 0 for none); createdFor remembers the record
\* whose Reconcile pass created the object (0: created by hand)
NoObject == [exists |-> FALSE, owner |-> 0, createdFor |-> 0, data |-> <<>>,
             ports |-> <<>>, replicas |-> 0, readyReplicas |-> 0, ip |-> ""]

NoResult == [requeueAfter |-> 0, err |-> ""]

\* no function call under way
NoCall == [fn |-> "", arg |-> <<>>, returned |-> FALSE, result |-> <<>>]

NoSeen == [sts |-> NoObject, minecraftSvc |-> NoObject, sftpSvc |-> NoObject]

----------------------------------------------------------------------------
(* Deterministic names and the synthesized objects *)

SecretKey(name) == <<"Secret", name \o "-sftp">>
PVCKey(name) == <<"PersistentVolumeClaim", name \o "-data">>
StatefulSetKey(name) == <<"StatefulSet", name>>
MinecraftSvcKey(name) == <<"Service", name \o "-minecraft">>
SFTPSvcKey(name) == <<"Service", name \o "-sftp">>

\* the order in which Reconcile works through the owned objects
OwnedKeys(name) ==
    << SecretKey(name), PVCKey(name), StatefulSetKey(name),
       MinecraftSvcKey(name), SFTPSvcKey(name) >>

KeySet == { OwnedKeys(ServerName)[i] : i \in 1..5 }

\* each synthesized object carries, under manifest, what the function
\* writes into the object; the other fields are what the store and the
\* platform keep about it

secretForMinecraftServer(name, spec) ==
    [exists |-> TRUE, owner |-> 0, createdFor |-> 0,
     data |-> <<spec.sftpUsername, spec.sftpPassword>>, ports |-> <<>>,
     replicas |-> 0, readyReplicas |-> 0, ip |-> "",
     manifest |->
        [kind |-> "Secret", name |-> name \o "-sftp",
         stringData |-> [username |-> spec.sftpUsername,
                         password |-> spec.sftpPassword]]]

\* resource.MustParse(m.Spec.StorageSize) is kept as the text it parsed
pvcForMinecraftServer(name, spec) ==
    [exists |-> TRUE, owner |-> 0, createdFor |-> 0,
     data |-> <<spec.storageSize, "ReadWriteOnce">>, ports |-> <<>>,
     replicas |-> 0, readyReplicas |-> 0, ip |-> "",
     manifest |->
        [kind |-> "PersistentVolumeClaim", name |-> name \o "-data",
         accessModes |-> <<"ReadWriteOnce">>,
         requests |-> [storage |-> spec.storageSize]]]

\* the labels of the StatefulSet, of its selector and of its pod template
statefulSetLabels(name) ==
    [app |-> "minecraft", minecraftserver |-> name,
     appName |-> "minecraft", appInstance |-> name,
     managedBy |-> "homecraft-operator"]

\* minecraftEnv as it would be with version and serverType passed on as
\* they are
minecraftEnvNoDefaults(spec) ==
    << [name |-> "EULA", value |-> IF spec.eula THEN "true" ELSE "false"],
       [name |-> "VERSION", value |-> spec.version],
       [name |-> "TYPE", value |-> spec.serverType],
       [name |-> "MEMORY", value |-> spec.memory] >>
    \o (IF spec.maxPlayers > 0
        THEN <<[name |-> "MAX_PLAYERS", value |-> ToString(spec.maxPlayers)]>>
        ELSE <<>>)
    \o (IF spec.difficulty # ""
        THEN <<[name |-> "DIFFICULTY", value |-> spec.difficulty]>>
        ELSE <<>>)
    \o (IF spec.gamemode # ""
        THEN <<[name |-> "MODE", value |-> spec.gamemode]>>
        ELSE <<>>)

\* minecraftEnv as it would be with MODE appended before DIFFICULTY
minecraftEnvModeFirst(spec) ==
    << [name |-> "EULA", value |-> IF spec.eula THEN "true" ELSE "false"],
       [name |-> "VERSION",
        value |-> IF spec.version = "" THEN "LATEST" ELSE spec.version],
       [name |-> "TYPE",
        value |-> IF spec.serverType = "" THEN "VANILLA"
                  ELSE spec.serverType],
       [name |-> "MEMORY", value |-> spec.memory] >>
    \o (IF spec.maxPlayers > 0
        THEN <<[name |-> "MAX_PLAYERS", value |-> ToString(spec.maxPlayers)]>>
        ELSE <<>>)
    \o (IF spec.gamemode # ""
        THEN <<[name |-> "MODE", value |-> spec.gamemode]>>
        ELSE <<>>)
    \o (IF spec.difficulty # ""
        THEN <<[name |-> "DIFFICULTY", value |-> spec.difficulty]>>
        ELSE <<>>)

\* statefulSetForMinecraftServer: the environment of the minecraft
\* container, with the defaults of version and serverType
minecraftEnv(spec) ==
    << [name |-> "EULA", value |-> IF spec.eula THEN "true" ELSE "false"],
       [name |-> "VERSION",
        value |-> IF spec.version = "" THEN "LATEST" ELSE spec.version],
       [name |-> "TYPE",
        value |-> IF spec.serverType = "" THEN "VANILLA"
                  ELSE spec.serverType],
       [name |-> "MEMORY", value |-> spec.memory] >>
    \o (IF spec.maxPlayers > 0
        THEN <<[name |-> "MAX_PLAYERS", value |-> ToString(spec.maxPlayers)]>>
        ELSE <<>>)
    \o (IF spec.difficulty # ""
        THEN <<[name |-> "DIFFICULTY", value |-> spec.difficulty]>>
        ELSE <<>>)
    \o (IF spec.gamemode # ""
        THEN <<[name |-> "MODE", value |-> spec.gamemode]>>
        ELSE <<>>)

\* minecraftContainer as it would be with the memory limit left out
minecraftContainerNoLimit(spec) ==
    [name |-> "minecraft", image |-> "itzg/minecraft-server:latest",
     args |-> <<>>,
     ports |-> <<[name |-> "minecraft", containerPort |-> MinecraftPort]>>,
     env |-> minecraftEnv(spec),
     volumeMounts |-> <<[name |-> "data", mountPath |-> "/data"]>>,
     requests |-> <<[resource |-> "memory", quantity |-> spec.memory]>>,
     limits |-> <<>>]

\* statefulSetForMinecraftServer: the first container.
\* resource.MustParse(m.Spec.Memory) is kept as the text it parsed
minecraftContainer(spec) ==
    [name |-> "minecraft", image |-> "itzg/minecraft-server:latest",
     args |-> <<>>,
     ports |-> <<[name |-> "minecraft", containerPort |-> MinecraftPort]>>,
     env |-> minecraftEnv(spec),
     volumeMounts |-> <<[name |-> "data", mountPath |-> "/data"]>>,
     requests |-> <<[resource |-> "memory", quantity |-> spec.memory]>>,
     limits |-> <<[resource |-> "memory", quantity |-> spec.memory]>>]

\* statefulSetForMinecraftServer: the second container, with the
\* "username:password:uid:gid:dir" argument
sftpContainer(spec) ==
    [name |-> "sftp", image |-> "atmoz/sftp:latest",
     args |-> <<spec.sftpUsername \o ":" \o spec.sftpPassword
                   \o ":1000:1000:/data">>,
     ports |-> <<[name |-> "sftp", containerPort |-> SFTPPort]>>,
     env |-> <<>>,
     volumeMounts |-> <<[name |-> "data",
                         mountPath |-> "/home/" \o spec.sftpUsername
                                          \o "/data"]>>,
     requests |-> <<>>,
     limits |-> <<>>]

statefulSetForMinecraftServer(name, spec) ==
    [exists |-> TRUE, owner |-> 0, createdFor |-> 0,
     data |-> <<spec.memory,
                spec.sftpUsername \o ":" \o spec.sftpPassword
                    \o ":1000:1000:/data">>,
     ports |-> <<>>,
     replicas |-> 0, readyReplicas |-> 0, ip |-> "",
     manifest |->
        [kind |-> "StatefulSet", name |-> name,
         labels |-> statefulSetLabels(name),
         replicas |-> 1, serviceName |-> name,
         selector |-> statefulSetLabels(name),
         templateLabels |-> statefulSetLabels(name),
         containers |-> <<minecraftContainer(spec), sftpContainer(spec)>>,
         volumes |-> <<[name |-> "data", claimName |-> name \o "-data"]>>]]

\* the labels and the selector of the two Services
serviceLabels(name) == [app |-> "minecraft", minecraftserver |-> name]

serviceForMinecraft(name, spec) ==
    [exists |-> TRUE, owner |-> 0, createdFor |-> 0,
     data |-> <<"LoadBalancer">>, ports |-> <<MinecraftPort>>,
     replicas |-> 0, readyReplicas |-> 0, ip |-> "",
     manifest |->
        [kind |-> "Service", name |-> name \o "-minecraft",
         labels |-> serviceLabels(name), type |-> "LoadBalancer",
         selector |-> serviceLabels(name),
         ports |-> <<[name |-> "minecraft", port |-> MinecraftPort,
                      targetPort |-> MinecraftPort, protocol |-> "TCP"]>>]]

\* serviceForSFTP as it would be if the Service took the server's name
serviceForSFTPBareName(name, spec) ==
    [exists |-> TRUE, owner |-> 0, createdFor |-> 0,
     data |-> <<"LoadBalancer">>, ports |-> <<SFTPPort>>,
     replicas |-> 0, readyReplicas |-> 0, ip |-> "",
     manifest |->
        [kind |-> "Service", name |-> name,
         labels |-> serviceLabels(name), type |-> "LoadBalancer",
         selector |-> serviceLabels(name),
         ports |-> <<[name |-> "sftp", port |-> SFTPPort,
                      targetPort |-> SFTPPort, protocol |-> "TCP"]>>]]

serviceForSFTP(name, spec) ==
    [exists |-> TRUE, owner |-> 0, createdFor |-> 0,
     data |-> <<"LoadBalancer">>, ports |-> <<SFTPPort>>,
     replicas |-> 0, readyReplicas |-> 0, ip |-> "",
     manifest |->
        [kind |-> "Service", name |-> name \o "-sftp",
         labels |-> serviceLabels(name), type |-> "LoadBalancer",
         selector |-> serviceLabels(name),
         ports |-> <<[name |-> "sftp", port |-> SFTPPort,
                      targetPort |-> SFTPPort, protocol |-> "TCP"]>>]]

\* the object Reconcile builds for the i-th owned kind
Synthesize(i, name, spec) ==
    CASE i = 1 -> secretForMinecraftServer(name, spec)
      [] i = 2 -> pvcForMinecraftServer(name, spec)
      [] i = 3 -> statefulSetForMinecraftServer(name, spec)
      [] i = 4 -> serviceForMinecraft(name, spec)
      [] i = 5 -> serviceForSFTP(name, spec)

\* pvcForMinecraftServer and statefulSetForMinecraftServer call
\* resource.MustParse, which panics on text that is no quantity
SynthesisPanics(i, spec) ==
    \/ i = 2 /\ ~QuantityParses(spec.storageSize)
    \/ i = 3 /\ ~QuantityParses(spec.memory)

\* SetControllerReference left out: the object goes to the store without
\* an owner
SetControllerReferenceNone(ownerUID, obj) == obj

\* controllerutil.SetControllerReference(owner, obj, scheme)
SetControllerReference(ownerUID, obj) == [obj EXCEPT !.owner = ownerUID]

\* an object somebody put under one of the names by hand: no owner
\* back-reference, a content of its own
ForeignObject(key) ==
    [exists |-> TRUE, owner |-> 0, createdFor |-> 0, data |-> <<"foreign">>,
     ports |-> IF key[1] = "Service" THEN <<8080>> ELSE <<>>,
     replicas |-> 0, readyReplicas |-> 0, ip |-> ""]

----------------------------------------------------------------------------
(* Initial state: an empty store, no pass running *)

\* no request in the gateway
NoAdmission ==
    /\ nodes = <<>>
    /\ pods = <<>>
    /\ servers = <<>>
    /\ handlers = <<>>

Init ==
    /\ rec = NoRecord
    /\ objects = [k \in KeySet |-> NoObject]
    /\ pc = "idle"
    /\ m = NoCopy
    /\ idx = 1
    /\ seen = NoSeen
    /\ ops = <<>>
    /\ result = NoResult
    /\ nextUID = 1
    /\ failures = 0
    /\ external = 0
    /\ dirty = FALSE
    /\ cleanPasses = 0
    /\ NoAdmission
    /\ call = NoCall

PassActive == pc \notin {"idle", "done"}

Live(r) == r.exists /\ ~r.deleting

\* CopyOf as it would be if the pass put the default of version into its
\* copy of the record
CopyOfDefaulted(r) ==
    [exists |-> r.exists, uid |-> r.uid, finalizers |-> r.finalizers,
     deleting |-> r.deleting,
     spec |-> [r.spec EXCEPT !.version = IF @ = "" THEN "LATEST" ELSE @],
     status |-> r.status, current |-> TRUE]

\* the pass's copy after a read or a write of the record: the stored record
\* at its current resourceVersion
CopyOf(r) ==
    [exists |-> r.exists, uid |-> r.uid, finalizers |-> r.finalizers,
     deleting |-> r.deleting, spec |-> r.spec, status |-> r.status,
     current |-> TRUE]

\* another writer changed the stored record: the pass's copy, if it holds
\* one, no longer carries the stored resourceVersion
Outdated(c) == IF c.exists THEN [c EXCEPT !.current = FALSE] ELSE c

Logged(op, key, out) == Append(ops, [op |-> op, key |-> key, out |-> out])

----------------------------------------------------------------------------
(* The other writers of the store *)

\* the gateway (or kubectl) stores a record under the key
CreateMinecraftServer(spec) ==
    /\ ~rec.exists
    /\ nextUID <= MaxUID
    /\ rec' = [exists |-> TRUE, uid |-> nextUID, finalizers |-> {},
               deleting |-> FALSE, spec |-> spec, status |-> NoStatus]
    /\ nextUID' = nextUID + 1
    /\ m' = Outdated(m)
    /\ dirty' = TRUE
    /\ cleanPasses' = 0
    /\ UNCHANGED <<objects, pc, idx, seen, ops, result, failures, external>>
    /\ UNCHANGED <<admissionVars, call>>

\* the gateway deletes the record: the store removes it at once when it
\* carries no finalizer and marks it for deletion otherwise
DeleteMinecraftServer ==
    /\ rec.exists
    /\ ~rec.deleting
    /\ rec' = IF rec.finalizers = {} THEN NoRecord
              ELSE [rec EXCEPT !.deleting = TRUE]
    /\ m' = Outdated(m)
    /\ dirty' = TRUE
    /\ cleanPasses' = 0
    /\ UNCHANGED <<objects, pc, idx, seen, ops, result, nextUID, failures,
                   external>>
    /\ UNCHANGED <<admissionVars, call>>

\* somebody creates an object under one of the deterministic names by hand
ExternalCreate(key) ==
    /\ external < MaxExternal
    /\ ~objects[key].exists
    /\ objects' = [objects EXCEPT ![key] = ForeignObject(key)]
    /\ external' = external + 1
    /\ dirty' = TRUE
    /\ cleanPasses' = 0
    /\ UNCHANGED <<rec, pc, m, idx, seen, ops, result, nextUID, failures>>
    /\ UNCHANGED <<admissionVars, call>>

\* somebody deletes an owned object by hand
ExternalDelete(key) ==
    /\ external < MaxExternal
    /\ objects[key].exists
    /\ objects' = [objects EXCEPT ![key] = NoObject]
    /\ external' = external + 1
    /\ dirty' = TRUE
    /\ cleanPasses' = 0
    /\ UNCHANGED <<rec, pc, m, idx, seen, ops, result, nextUID, failures>>
    /\ UNCHANGED <<admissionVars, call>>

\* the owner an object's back-reference names is gone from the store
OwnerGone(obj) ==
    /\ obj.exists
    /\ obj.owner # 0
    /\ ~(rec.exists /\ rec.uid = obj.owner)

\* the platform's garbage collector removes an object whose owner is gone
GarbageCollect(key) ==
    /\ OwnerGone(objects[key])
    /\ objects' = [objects EXCEPT ![key] = NoObject]
    /\ dirty' = TRUE
    /\ cleanPasses' = 0
    /\ UNCHANGED <<rec, pc, m, idx, seen, ops, result, nextUID, failures,
                   external>>
    /\ UNCHANGED <<admissionVars, call>>

\* the workload controller starts the replica of the StatefulSet, then the
\* replica becomes ready
WorkloadProgress ==
    LET key == StatefulSetKey(ServerName)
        sts == objects[key]
    IN  /\ sts.exists
        /\ sts.readyReplicas = 0
        /\ objects' = [objects EXCEPT ![key] =
                IF sts.replicas = 0 THEN [sts EXCEPT !.replicas = 1]
                ELSE [sts EXCEPT !.readyReplicas = 1]]
        /\ dirty' = TRUE
        /\ cleanPasses' = 0
        /\ UNCHANGED <<rec, pc, m, idx, seen, ops, result, nextUID,
                       failures, external>>
    /\ UNCHANGED <<admissionVars, call>>

\* the platform assigns an external address to a Service
AssignAddress(key) ==
    /\ key[1] = "Service"
    /\ objects[key].exists
    /\ objects[key].ip = ""
    /\ objects' = [objects EXCEPT ![key].ip = "10.0.0.1"]
    /\ dirty' = TRUE
    /\ cleanPasses' = 0
    /\ UNCHANGED <<rec, pc, m, idx, seen, ops, result, nextUID, failures,
                   external>>
    /\ UNCHANGED <<admissionVars, call>>

----------------------------------------------------------------------------
(* The Reconcile pass: what it does with the outcome of each store call *)

\* where the pass goes next; pc = "done" is a return of (requeueAfter, err)
Step(p, i, e, rq) == [pc |-> p, idx |-> i, err |-> e, requeueAfter |-> rq]
Return(e, rq) == Step("done", 1, e, rq)

\* AfterFetch as it would be with the finalizer gate forgotten: a live
\* record goes straight to the owned objects
AfterFetchNoGate(out, r) ==
    IF out = "NotFound" THEN Return("", 0)
    ELSE IF out # "ok" THEN Return(out, 0)
    ELSE IF r.deleting
         THEN IF finalizerName \in r.finalizers
              THEN Step("removeFinalizer", 1, "", 0)
              ELSE Return("", 0)
    ELSE Step("get", 1, "", 0)

\* AfterFetch as it would be if not-found were returned like any other
\* error of the fetch
AfterFetchNotFoundIsError(out, r) ==
    IF out # "ok" THEN Return(out, 0)
    ELSE IF r.deleting
         THEN IF finalizerName \in r.finalizers
              THEN Step("removeFinalizer", 1, "", 0)
              ELSE Return("", 0)
    ELSE IF finalizerName \notin r.finalizers
         THEN Step("addFinalizer", 1, "", 0)
    ELSE Step("get", 1, "", 0)

\* Reconcile, from the fetch to the first owned object
AfterFetch(out, r) ==
    IF out = "NotFound" THEN Return("", 0)
    ELSE IF out # "ok" THEN Return(out, 0)
    ELSE IF r.deleting
         THEN IF finalizerName \in r.finalizers
              THEN Step("removeFinalizer", 1, "", 0)
              ELSE Return("", 0)
    ELSE IF finalizerName \notin r.finalizers
         THEN Step("addFinalizer", 1, "", 0)
    ELSE Step("get", 1, "", 0)

\* AfterRemoveFinalizer as it would be if the deletion path ended like the
\* live path, with the 30 s requeue
AfterRemoveFinalizerRequeue(out) ==
    IF out # "ok" THEN Return(out, 0) ELSE Return("", RequeueSeconds)

\* Reconcile, deletion path: after r.Update without the finalizer
AfterRemoveFinalizer(out) ==
    IF out # "ok" THEN Return(out, 0) ELSE Return("", 0)

\* AfterAddFinalizer as it would be with the Secret step left out
AfterAddFinalizerSkipsSecret(out) ==
    IF out # "ok" THEN Return(out, 0) ELSE Step("get", 2, "", 0)

\* Reconcile, live path: after r.Update with the finalizer
AfterAddFinalizer(out) ==
    IF out # "ok" THEN Return(out, 0) ELSE Step("get", 1, "", 0)

\* Reconcile: the i-th owned object is settled, on to the next or to
\* updateStatus
AfterOwned(i) ==
    IF i < 5 THEN Step("get", i + 1, "", 0) ELSE Step("readSts", 1, "", 0)

\* AfterGet as it would be if an object found under the name were an
\* error (a create without the read's if-absent)
AfterGetExistingIsError(i, out) ==
    IF out = "NotFound" THEN Step("create", i, "", 0)
    ELSE IF out # "ok" THEN Return(out, 0)
    ELSE Return("AlreadyExists", 0)

\* createOrUpdateResource: after r.Get of the object
AfterGet(i, out) ==
    IF out = "NotFound" THEN Step("create", i, "", 0)
    ELSE IF out # "ok" THEN Return(out, 0)
    ELSE AfterOwned(i)

\* OnExisting as it would be if createOrUpdateResource did update: the
\* stored object takes the synthesized content and owner
OnExistingOverwrite(existing, obj) ==
    [existing EXCEPT !.owner = obj.owner, !.data = obj.data,
                     !.ports = obj.ports]

\* createOrUpdateResource: what an object found under the name becomes
OnExisting(existing, obj) == existing

\* AfterCreate as it would be with the error of r.Create dropped
AfterCreateIgnoresError(i, out) == AfterOwned(i)

\* createOrUpdateResource: after r.Create of the object
AfterCreate(i, out) ==
    IF out # "ok" THEN Return(out, 0) ELSE AfterOwned(i)

\* AfterReadBack as it would be if an object missing at read-back were
\* passed over
AfterReadBackIgnoresMissing(p, out) ==
    IF out \notin {"ok", "NotFound"} THEN Return(out, 0)
    ELSE IF p = "readSts" THEN Step("readMinecraftSvc", 1, "", 0)
    ELSE IF p = "readMinecraftSvc" THEN Step("readSftpSvc", 1, "", 0)
    ELSE Step("statusUpdate", 1, "", 0)

\* updateStatus: after each read-back
AfterReadBack(p, out) ==
    IF out # "ok" THEN Return(out, 0)
    ELSE IF p = "readSts" THEN Step("readMinecraftSvc", 1, "", 0)
    ELSE IF p = "readMinecraftSvc" THEN Step("readSftpSvc", 1, "", 0)
    ELSE Step("statusUpdate", 1, "", 0)

\* AfterStatusUpdate as it would be if the full pass ended like the
\* deletion path, with no requeue
AfterStatusUpdateNoRequeue(out) ==
    IF out # "ok" THEN Return(out, 0) ELSE Return("", 0)

\* Reconcile: after r.Status().Update
AfterStatusUpdate(out) ==
    IF out # "ok" THEN Return(out, 0) ELSE Return("", RequeueSeconds)

\* EndpointOf as it would be without the test for an assigned address
EndpointOfUnconditional(svc) == svc.ip \o ":" \o ToString(svc.ports[1])

\* updateStatus: "<ip>:<port>" of a Service with an assigned address
EndpointOf(svc) ==
    IF svc.ip # "" /\ Len(svc.ports) > 0
    THEN svc.ip \o ":" \o ToString(svc.ports[1])
    ELSE ""

\* PhaseOf as it would be with the two tests in the other order
PhaseOfReplicasFirst(sts) ==
    IF sts.replicas > 0 THEN "Starting"
    ELSE IF sts.readyReplicas > 0 THEN "Running"
    ELSE "Pending"

\* PhaseOf as it would be if a workload without replicas were reported as
\* failed
PhaseOfFailed(sts) ==
    IF sts.readyReplicas > 0 THEN "Running"
    ELSE IF sts.replicas > 0 THEN "Starting"
    ELSE "Failed"

\* updateStatus: the phase
PhaseOf(sts) ==
    IF sts.readyReplicas > 0 THEN "Running"
    ELSE IF sts.replicas > 0 THEN "Starting"
    ELSE "Pending"

MessageOf(sts) ==
    IF sts.readyReplicas > 0 THEN "Server is running"
    ELSE IF sts.replicas > 0 THEN "Server is starting"
    ELSE "Creating resources"

\* ProjectStatus as it would be with the time of the write in the message
ProjectStatusStamped(spec, sts, minecraftSvc, sftpSvc, now) ==
    [phase |-> PhaseOf(sts),
     message |-> MessageOf(sts) \o " at " \o ToString(now),
     endpoint |-> EndpointOf(minecraftSvc),
     sftpEndpoint |-> EndpointOf(sftpSvc),
     sftpUsername |-> spec.sftpUsername,
     sftpPassword |-> spec.sftpPassword,
     allocatedMemory |-> spec.memory,
     lastUpdated |-> now]

\* ProjectStatus as it would be with allocatedMemory taken from the live
\* StatefulSet: the request of the workload a pass created, nothing for a
\* workload that has none of the record's
ProjectStatusLiveMemory(spec, sts, minecraftSvc, sftpSvc, now) ==
    [phase |-> PhaseOf(sts),
     message |-> MessageOf(sts),
     endpoint |-> EndpointOf(minecraftSvc),
     sftpEndpoint |-> EndpointOf(sftpSvc),
     sftpUsername |-> spec.sftpUsername,
     sftpPassword |-> spec.sftpPassword,
     allocatedMemory |-> IF sts.createdFor = 0 THEN "" ELSE spec.memory,
     lastUpdated |-> now]

\* updateStatus: the status it writes
ProjectStatus(spec, sts, minecraftSvc, sftpSvc, now) ==
    [phase |-> PhaseOf(sts),
     message |-> MessageOf(sts),
     endpoint |-> EndpointOf(minecraftSvc),
     sftpEndpoint |-> EndpointOf(sftpSvc),
     sftpUsername |-> spec.sftpUsername,
     sftpPassword |-> spec.sftpPassword,
     allocatedMemory |-> spec.memory,
     lastUpdated |-> now]

----------------------------------------------------------------------------
(* The store calls of a pass *)

\* a store call may fail with an error of the store (network, auth, ...)
FailChoices == IF failures < MaxFailures THEN BOOLEAN ELSE {FALSE}

\* UpdateOutcome as it would be if the store took a write of any version
UpdateOutcomeUnversioned(fail) ==
    IF fail THEN "StoreError"
    ELSE IF ~rec.exists THEN "NotFound"
    ELSE "ok"

\* r.Update / r.Status().Update of the record with the pass's copy
UpdateOutcome(fail) ==
    IF fail THEN "StoreError"
    ELSE IF ~rec.exists THEN "NotFound"
    ELSE IF ~m.current THEN "Conflict"
    ELSE "ok"

\* r.Get of an object
GetOutcome(fail, obj) ==
    IF fail THEN "StoreError"
    ELSE IF obj.exists THEN "ok"
    ELSE "NotFound"

\* r.Create of an object
CreateOutcome(fail, obj) ==
    IF fail THEN "StoreError"
    ELSE IF obj.exists THEN "AlreadyExists"
    ELSE "ok"

\* the pass moves on, or returns
Goto(next) ==
    /\ pc' = next.pc
    /\ idx' = next.idx
    /\ IF next.pc = "done"
       THEN /\ result' = [requeueAfter |-> next.requeueAfter,
                          err |-> next.err]
            /\ cleanPasses' =
                  IF next.err = "" /\ next.requeueAfter = RequeueSeconds
                     /\ ~dirty
                  THEN (IF cleanPasses < 2 THEN cleanPasses + 1 ELSE 2)
                  ELSE 0
       ELSE UNCHANGED <<result, cleanPasses>>

\* the runtime invokes Reconcile for the key
StartReconcile ==
    /\ ~PassActive
    /\ pc' = "fetch"
    /\ m' = NoCopy
    /\ idx' = 1
    /\ seen' = NoSeen
    /\ ops' = <<>>
    /\ result' = NoResult
    /\ dirty' = FALSE
    /\ UNCHANGED <<rec, objects, nextUID, failures, external, cleanPasses>>
    /\ UNCHANGED <<admissionVars, call>>

\* r.Get(ctx, req.NamespacedName, minecraftServer)
Fetch ==
    /\ pc = "fetch"
    /\ \E fail \in FailChoices :
        LET out == GetOutcome(fail, rec)
            next == AfterFetch(out, rec)
        IN  /\ ops' = Logged("GetRecord", <<"MinecraftServer", ServerName>>, out)
            /\ m' = IF out = "ok" /\ next.pc # "done" THEN CopyOf(rec)
                    ELSE NoCopy
            /\ failures' = IF fail THEN failures + 1 ELSE failures
            /\ Goto(next)
    /\ UNCHANGED <<rec, objects, seen, nextUID, external, dirty>>
    /\ UNCHANGED <<admissionVars, call>>

\* controllerutil.RemoveFinalizer; r.Update: the store completes the
\* deletion of a record marked for deletion once it carries no finalizer
RemoveFinalizer ==
    /\ pc = "removeFinalizer"
    /\ \E fail \in FailChoices :
        LET out == UpdateOutcome(fail)
            next == AfterRemoveFinalizer(out)
            left == m.finalizers \ {finalizerName}
        IN  /\ ops' = Logged("UpdateRecord", <<"MinecraftServer", ServerName>>, out)
            /\ rec' = IF out # "ok" THEN rec
                      ELSE IF rec.deleting /\ left = {} THEN NoRecord
                      ELSE [rec EXCEPT !.finalizers = left, !.spec = m.spec]
            /\ m' = IF next.pc = "done" THEN NoCopy ELSE m
            /\ failures' = IF fail THEN failures + 1 ELSE failures
            /\ Goto(next)
    /\ UNCHANGED <<objects, seen, nextUID, external, dirty>>
    /\ UNCHANGED <<admissionVars, call>>

\* controllerutil.AddFinalizer; r.Update
AddFinalizer ==
    /\ pc = "addFinalizer"
    /\ \E fail \in FailChoices :
        LET out == UpdateOutcome(fail)
            next == AfterAddFinalizer(out)
            with == m.finalizers \cup {finalizerName}
        IN  /\ ops' = Logged("UpdateRecord", <<"MinecraftServer", ServerName>>, out)
            /\ rec' = IF out # "ok" THEN rec
                      ELSE [rec EXCEPT !.finalizers = with, !.spec = m.spec]
            /\ m' = IF next.pc = "done" THEN NoCopy
                    ELSE [m EXCEPT !.finalizers = with]
            /\ failures' = IF fail THEN failures + 1 ELSE failures
            /\ Goto(next)
    /\ UNCHANGED <<objects, seen, nextUID, external, dirty>>
    /\ UNCHANGED <<admissionVars, call>>

\* createOrUpdateResource: synthesize the object, set the owner
\* back-reference, r.Get it.  pvcForMinecraftServer and
\* statefulSetForMinecraftServer panic on a quantity that does not parse,
\* before any store call for their object.
GetOwned ==
    /\ pc = "get"
    /\ IF SynthesisPanics(idx, m.spec)
       THEN /\ Goto(Return("panic", 0))
            /\ m' = NoCopy
            /\ UNCHANGED <<ops, failures, objects>>
       ELSE \E fail \in FailChoices :
            LET key == OwnedKeys(ServerName)[idx]
                out == GetOutcome(fail, objects[key])
                next == AfterGet(idx, out)
                obj == SetControllerReference(m.uid,
                           Synthesize(idx, ServerName, m.spec))
            IN  /\ ops' = Logged("Get", key, out)
                /\ objects' = IF out = "ok"
                              THEN [objects EXCEPT ![key] =
                                        OnExisting(objects[key], obj)]
                              ELSE objects
                /\ m' = IF next.pc = "done" THEN NoCopy ELSE m
                /\ failures' = IF fail THEN failures + 1 ELSE failures
                /\ Goto(next)
    /\ UNCHANGED <<rec, seen, nextUID, external, dirty>>
    /\ UNCHANGED <<admissionVars, call>>

\* createOrUpdateResource: r.Create(ctx, obj)
CreateOwned ==
    /\ pc = "create"
    /\ \E fail \in FailChoices :
        LET key == OwnedKeys(ServerName)[idx]
            obj == SetControllerReference(m.uid,
                       Synthesize(idx, ServerName, m.spec))
            out == CreateOutcome(fail, objects[key])
            next == AfterCreate(idx, out)
        IN  /\ ops' = Logged("Create", key, out)
            /\ objects' = IF out = "ok"
                          THEN [objects EXCEPT ![key] =
                                    [obj EXCEPT !.createdFor = m.uid]]
                          ELSE objects
            /\ m' = IF next.pc = "done" THEN NoCopy ELSE m
            /\ failures' = IF fail THEN failures + 1 ELSE failures
            /\ Goto(next)
    /\ UNCHANGED <<rec, seen, nextUID, external, dirty>>
    /\ UNCHANGED <<admissionVars, call>>

\* the object each read-back of updateStatus fetches
ReadBackKey(p) ==
    IF p = "readSts" THEN StatefulSetKey(ServerName)
    ELSE IF p = "readMinecraftSvc" THEN MinecraftSvcKey(ServerName)
    ELSE SFTPSvcKey(ServerName)

\* updateStatus: r.Get of the live StatefulSet and of the two Services
ReadBack ==
    /\ pc \in {"readSts", "readMinecraftSvc", "readSftpSvc"}
    /\ \E fail \in FailChoices :
        LET key == ReadBackKey(pc)
            out == GetOutcome(fail, objects[key])
            next == AfterReadBack(pc, out)
        IN  /\ ops' = Logged("ReadBack", key, out)
            /\ seen' = IF next.pc = "done" THEN NoSeen
                       ELSE IF pc = "readSts"
                            THEN [seen EXCEPT !.sts = objects[key]]
                       ELSE IF pc = "readMinecraftSvc"
                            THEN [seen EXCEPT !.minecraftSvc = objects[key]]
                       ELSE [seen EXCEPT !.sftpSvc = objects[key]]
            /\ m' = IF next.pc = "done" THEN NoCopy ELSE m
            /\ failures' = IF fail THEN failures + 1 ELSE failures
            /\ Goto(next)
    /\ UNCHANGED <<rec, objects, nextUID, external, dirty>>
    /\ UNCHANGED <<admissionVars, call>>

\* updateStatus: r.Status().Update(ctx, m)
StatusUpdate ==
    /\ pc = "statusUpdate"
    /\ \E fail \in FailChoices, now \in 1..MaxTime :
        LET out == UpdateOutcome(fail)
            next == AfterStatusUpdate(out)
            status == ProjectStatus(m.spec, seen.sts, seen.minecraftSvc,
                                    seen.sftpSvc, now)
        IN  /\ ops' = Logged("UpdateStatus", <<"MinecraftServer", ServerName>>, out)
            /\ rec' = IF out = "ok" THEN [rec EXCEPT !.status = status]
                      ELSE rec
            /\ m' = NoCopy
            /\ seen' = NoSeen
            /\ failures' = IF fail THEN failures + 1 ELSE failures
            /\ Goto(next)
    /\ UNCHANGED <<objects, nextUID, external, dirty>>
    /\ UNCHANGED <<admissionVars, call>>

\* one step of the Reconcile pass
Reconcile ==
    \/ Fetch
    \/ RemoveFinalizer
    \/ AddFinalizer
    \/ GetOwned
    \/ CreateOwned
    \/ ReadBack
    \/ StatusUpdate

\* a step of another writer of the store
Environment ==
    \/ \E spec \in RecordSpecs : CreateMinecraftServer(spec)
    \/ DeleteMinecraftServer
    \/ \E key \in KeySet : ExternalCreate(key)
    \/ \E key \in KeySet : ExternalDelete(key)
    \/ \E key \in KeySet : GarbageCollect(key)
    \/ WorkloadProgress
    \/ \E key \in KeySet : AssignAddress(key)

Next == StartReconcile \/ Reconcile \/ Environment

Spec == Init /\ [][Next]_vars

\* The store with no writer of the owned objects but Reconcile: records
\* come and go, store calls fail, the platform reports on what exists;
\* nobody creates or removes an object under the five names by hand and
\* the garbage collector does not run
OrderNext ==
    \/ StartReconcile
    \/ Reconcile
    \/ \E spec \in RecordSpecs : CreateMinecraftServer(spec)
    \/ DeleteMinecraftServer
    \/ WorkloadProgress
    \/ \E key \in KeySet : AssignAddress(key)

OrderSpec == Init /\ [][OrderNext]_vars

\* The runtime invokes Reconcile again after every pass of a stored record
\* (30 s after a success, with backoff after an error, on the deletion
\* event), a started pass runs to its return, and the garbage collector
\* gets to every object whose owner is gone.
Fairness ==
    /\ WF_vars(StartReconcile)
    /\ WF_vars(Reconcile)
    /\ \A key \in KeySet : WF_vars(GarbageCollect(key))

FairSpec == Spec /\ Fairness

----------------------------------------------------------------------------
(* updateStatus over every observation.  The pass stands at the first      *)
(* read-back of updateStatus, the five objects are in the store, and the   *)
(* platform has brought the StatefulSet and the two Services to any of the *)
(* statuses below: the StatefulSet controller counts ready replicas among  *)
(* the replicas it has, a Service may or may not have been given an        *)
(* external address and a node port.                                       *)

\* the service with the node port p on its first port (0: none allocated)
WithNodePort(svc, p) ==
    [f \in DOMAIN svc \cup {"nodePort"} |->
        IF f = "nodePort" THEN p ELSE svc[f]]

\* the store calls of a pass that has found the five objects
OpsBeforeReadBack ==
    << [op |-> "GetRecord", key |-> <<"MinecraftServer", ServerName>>,
        out |-> "ok"] >>
    \o [i \in 1..5 |-> [op |-> "Get", key |-> OwnedKeys(ServerName)[i],
                        out |-> "ok"]]

StatusInit ==
    \E spec \in { sp \in RecordSpecs : ~SynthesisPanics(2, sp)
                                        /\ ~SynthesisPanics(3, sp) },
       replicas \in 0..MaxReplicas, readyReplicas \in 0..MaxReplicas,
       ip1 \in {"", "10.0.0.1"}, ip2 \in {"", "10.0.0.2"},
       np1 \in {0, 30000}, np2 \in {0, 30001} :
        LET made(i) == [SetControllerReference(1,
                            Synthesize(i, ServerName, spec))
                        EXCEPT !.createdFor = 1]
        IN  /\ readyReplicas <= replicas
            /\ rec = [exists |-> TRUE, uid |-> 1,
                      finalizers |-> {finalizerName}, deleting |-> FALSE,
                      spec |-> spec, status |-> NoStatus]
            /\ objects =
                 [k \in KeySet |->
                    IF k = StatefulSetKey(ServerName)
                    THEN [made(3) EXCEPT !.replicas = replicas,
                                         !.readyReplicas = readyReplicas]
                    ELSE IF k = MinecraftSvcKey(ServerName)
                    THEN WithNodePort([made(4) EXCEPT !.ip = ip1], np1)
                    ELSE IF k = SFTPSvcKey(ServerName)
                    THEN WithNodePort([made(5) EXCEPT !.ip = ip2], np2)
                    ELSE IF k = SecretKey(ServerName) THEN made(1)
                    ELSE made(2)]
            /\ pc = "readSts"
            /\ m = CopyOf(rec)
            /\ idx = 1
            /\ seen = NoSeen
            /\ ops = OpsBeforeReadBack
            /\ result = NoResult
            /\ nextUID = 2
            /\ failures = 0
            /\ external = 0
            /\ dirty = FALSE
            /\ cleanPasses = 0
            /\ NoAdmission
            /\ call = NoCall

StatusNext == ReadBack \/ StatusUpdate

StatusSpec == StatusInit /\ [][StatusNext]_vars

----------------------------------------------------------------------------
(* The gateway's admission path: CreateServer (handlers/server_handler.go)  *)
(* with the capacity check of pkg/k8s/client.go.  Texts the code inspects   *)
(* character by character (the memory quantity) are sequences of           *)
(* characters; memory is counted in bytes.                                  *)

unit == 1024
Mi == unit * unit

Digits == {"0", "1", "2", "3", "4", "5", "6", "7", "8", "9"}

DigitValue(c) ==
    CASE c = "0" -> 0 [] c = "1" -> 1 [] c = "2" -> 2 [] c = "3" -> 3
      [] c = "4" -> 4 [] c = "5" -> 5 [] c = "6" -> 6 [] c = "7" -> 7
      [] c = "8" -> 8 [] c = "9" -> 9

RECURSIVE DecimalValue(_)
DecimalValue(ds) ==
    IF ds = <<>> THEN 0
    ELSE 10 * DecimalValue(SubSeq(ds, 1, Len(ds) - 1)) + DigitValue(ds[Len(ds)])

\* isValidMemoryFormat as it would be with the 'i' of the unit optional
isValidMemoryFormatLoose(memory) ==
    LET n == Len(memory)
        d == IF n > 0 /\ memory[n] = "i" THEN n - 2 ELSE n - 1
    IN  /\ d >= 1
        /\ memory[d + 1] \in {"M", "G", "T"}
        /\ \A j \in 1..d : memory[j] \in Digits

\* regexp.MatchString(`^[0-9]+[MGT]i$`, memory)
isValidMemoryFormat(memory) ==
    LET n == Len(memory)
    IN  /\ n >= 3
        /\ memory[n] = "i"
        /\ memory[n - 1] \in {"M", "G", "T"}
        /\ \A j \in 1..(n - 2) : memory[j] \in Digits

\* b to the power e
RECURSIVE Power(_, _)
Power(b, e) == IF e = 0 THEN 1 ELSE b * Power(b, e - 1)

\* the suffixes of resource.ParseQuantity with base and exponent: the
\* binary ones (Ki .. Ei), the decimal ones (k .. E) and none.  The
\* fractional suffixes (n, u, m) and the exponent notation are left out:
\* no text CreateServer passes on carries them.
QuantitySuffix(sfx) ==
    CASE sfx = <<>> -> [ok |-> TRUE, base |-> 10, exp |-> 0]
      [] sfx = <<"K", "i">> -> [ok |-> TRUE, base |-> 2, exp |-> 10]
      [] sfx = <<"M", "i">> -> [ok |-> TRUE, base |-> 2, exp |-> 20]
      [] sfx = <<"G", "i">> -> [ok |-> TRUE, base |-> 2, exp |-> 30]
      [] sfx = <<"T", "i">> -> [ok |-> TRUE, base |-> 2, exp |-> 40]
      [] sfx = <<"P", "i">> -> [ok |-> TRUE, base |-> 2, exp |-> 50]
      [] sfx = <<"E", "i">> -> [ok |-> TRUE, base |-> 2, exp |-> 60]
      [] sfx = <<"k">> -> [ok |-> TRUE, base |-> 10, exp |-> 3]
      [] sfx = <<"M">> -> [ok |-> TRUE, base |-> 10, exp |-> 6]
      [] sfx = <<"G">> -> [ok |-> TRUE, base |-> 10, exp |-> 9]
      [] sfx = <<"T">> -> [ok |-> TRUE, base |-> 10, exp |-> 12]
      [] sfx = <<"P">> -> [ok |-> TRUE, base |-> 10, exp |-> 15]
      [] sfx = <<"E">> -> [ok |-> TRUE, base |-> 10, exp |-> 18]
      [] OTHER -> [ok |-> FALSE, base |-> 10, exp |-> 0]

\* how many leading digits the text has
RECURSIVE LeadingDigits(_)
LeadingDigits(text) ==
    IF text # <<>> /\ text[1] \in Digits
    THEN 1 + LeadingDigits(SubSeq(text, 2, Len(text)))
    ELSE 0

\* resource.ParseQuantity on an unsigned whole number with a suffix: the
\* quantity is magnitude * base^exp, and a binary quantity above 2^63 - 1
\* is capped at 2^63 - 1 ("The max is just a simple cap").  A magnitude
\* below 2^31 reaches the cap only with an exponent above 32.
ParseQuantity(text) ==
    LET d == LeadingDigits(text)
        sfx == QuantitySuffix(SubSeq(text, d + 1, Len(text)))
        magnitude == DecimalValue(SubSeq(text, 1, d))
    IN  IF d = 0 \/ ~sfx.ok
        THEN [ok |-> FALSE, magnitude |-> 0, base |-> 10, exp |-> 0,
              capped |-> FALSE]
        ELSE [ok |-> TRUE, magnitude |-> magnitude,
              base |-> sfx.base, exp |-> sfx.exp,
              capped |-> /\ sfx.base = 2
                         /\ sfx.exp > 32
                         /\ magnitude >= Power(2, 63 - sfx.exp)]

\* parseMemoryToBytes: resource.ParseQuantity(memory), then Value().  The
\* byte count is computed for quantities below the cap
parseMemoryToBytes(memory) ==
    LET q == ParseQuantity(memory)
    IN  IF ~q.ok
        THEN [ok |-> FALSE, value |-> 0]
        ELSE [ok |-> TRUE, value |-> q.magnitude * Power(q.base, q.exp)]

\* parseHumanReadableToBytes: the match of `^(\d+)([KMGT]?)i?B?$`, the
\* number times 1024 to the power the unit letter stands for
parseHumanReadableToBytes(memory) ==
    LET d == LeadingDigits(memory)
        rest == SubSeq(memory, d + 1, Len(memory))
        hasUnit == rest # <<>> /\ rest[1] \in {"K", "M", "G", "T"}
        tail == IF hasUnit THEN Tail(rest) ELSE rest
        exp == IF ~hasUnit THEN 0
               ELSE CASE rest[1] = "K" -> 1 [] rest[1] = "M" -> 2
                      [] rest[1] = "G" -> 3 [] rest[1] = "T" -> 4
    IN  IF d >= 1 /\ tail \in {<<>>, <<"i">>, <<"B">>, <<"i", "B">>}
        THEN [ok |-> TRUE, magnitude |-> DecimalValue(SubSeq(memory, 1, d)),
              base |-> unit, exp |-> exp]
        ELSE [ok |-> FALSE, magnitude |-> 0, base |-> unit, exp |-> 0]

\* the characters of a Go string as one string value
RECURSIVE Text(_)
Text(cs) == IF cs = <<>> THEN "" ELSE cs[1] \o Text(Tail(cs))

DigitChar(d) == <<"0", "1", "2", "3", "4", "5", "6", "7", "8", "9">>[d + 1]

\* fmt's %d
RECURSIVE FormatNat(_)
FormatNat(n) ==
    IF n < 10 THEN <<DigitChar(n)>>
    ELSE FormatNat(n \div 10) \o <<DigitChar(n % 10)>>

FormatInt(n) == IF n < 0 THEN <<"-">> \o FormatNat(0 - n) ELSE FormatNat(n)

\* the loop of bytesToHumanReadable: the divisor and the unit index
RECURSIVE HumanUnit(_, _, _)
HumanUnit(n, div, exp) ==
    IF n >= unit THEN HumanUnit(n \div unit, div * unit, exp + 1)
    ELSE [div |-> div, exp |-> exp]

\* fmt's %.1f of bytes/div, in tenths: the quotient rounded to one digit,
\* a tie going to the even digit.  div is a power of two, so the float64
\* quotient is exact.  Ten times the remainder is taken in two parts where
\* div exceeds 2^20, to stay within 32 bits.
RoundedTenths(bytes, div) ==
    LET whole == bytes \div div
        rem == bytes % div
        s == IF div > Mi THEN div \div Mi ELSE 1
        D == div \div s
        c == 10 * (rem % s)
        N == 10 * (rem \div s) + (c \div s)
        t == N \div D
        rD == N % D
        frac == c % s
        up == 2 * rD > D \/ (2 * rD = D /\ frac > 0)
        tie == 2 * rD = D /\ frac = 0
        q == 10 * whole + t
    IN  IF up THEN q + 1 ELSE IF tie THEN q + (q % 2) ELSE q

\* bytesToHumanReadable as it would be if it wrote the notation the parser
\* reads: the whole quotient, then Ki, Mi or Gi
bytesToHumanReadableQuantity(bytes) ==
    IF bytes < unit THEN FormatInt(bytes)
    ELSE LET u == HumanUnit(bytes \div unit, unit, 0)
         IN  FormatNat(bytes \div u.div)
                \o <<<<"K", "M", "G", "T", "P", "E">>[u.exp + 1], "i">>

\* bytesToHumanReadable as it would be if it moved to the next unit when
\* the rounded quotient reaches 1024
bytesToHumanReadableCarry(bytes) ==
    IF bytes < unit THEN FormatInt(bytes) \o <<" ", "B">>
    ELSE LET u == HumanUnit(bytes \div unit, unit, 0)
             tenths == RoundedTenths(bytes, u.div)
             over == tenths >= 10 * unit
         IN  (IF over THEN <<"1", ".", "0">>
              ELSE FormatNat(tenths \div 10) \o <<".", DigitChar(tenths % 10)>>)
                \o <<" ", <<"K", "M", "G", "T", "P", "E">>
                              [u.exp + (IF over THEN 2 ELSE 1)], "i", "B">>

\* bytesToHumanReadable: "%d B" below 1024, else "%.1f %ciB" of the
\* quotient by the largest power of 1024 not above the byte count
bytesToHumanReadable(bytes) ==
    IF bytes < unit THEN FormatInt(bytes) \o <<" ", "B">>
    ELSE LET u == HumanUnit(bytes \div unit, unit, 0)
             tenths == RoundedTenths(bytes, u.div)
         IN  FormatNat(tenths \div 10) \o <<".", DigitChar(tenths % 10)>>
                \o <<" ", <<"K", "M", "G", "T", "P", "E">>[u.exp + 1],
                      "i", "B">>

\* GetClusterMemoryResources: the sum over the nodes that report
\* allocatable memory
RECURSIVE TotalMemory(_)
TotalMemory(ns) ==
    IF ns = <<>> THEN 0
    ELSE (IF ns[1].hasMemory THEN ns[1].memory ELSE 0) + TotalMemory(Tail(ns))

\* the sum of the memory requests of a pod's containers
RECURSIVE ContainerRequests(_)
ContainerRequests(cs) ==
    IF cs = <<>> THEN 0
    ELSE (IF cs[1].hasRequest THEN cs[1].request ELSE 0)
            + ContainerRequests(Tail(cs))

\* SkippedPod as it would be if only completed pods were skipped
SkippedPodSucceededOnly(pod) == pod.phase = "Succeeded"

\* GetClusterMemoryResources: "Skip completed/failed pods"
SkippedPod(pod) == pod.phase = "Succeeded" \/ pod.phase = "Failed"

\* GetClusterMemoryResources: the sum over the pods that are not skipped
RECURSIVE AllocatedMemory(_)
AllocatedMemory(ps) ==
    IF ps = <<>> THEN 0
    ELSE (IF SkippedPod(ps[1]) THEN 0 ELSE ContainerRequests(ps[1].containers))
            + AllocatedMemory(Tail(ps))

\* CheckMemoryAvailability as it would be with the comparison dropped
CheckMemoryAvailabilityAlwaysOk(requestedMemory, available) ==
    [hasCapacity |-> TRUE, message |-> ""]

\* CheckMemoryAvailability as it would be with >= for >
CheckMemoryAvailabilityStrict(requestedMemory, available) ==
    IF requestedMemory >= available
    THEN [hasCapacity |-> FALSE,
          message |-> "insufficient memory: requested "
                        \o Text(bytesToHumanReadable(requestedMemory))
                        \o ", available "
                        \o Text(bytesToHumanReadable(available))]
    ELSE [hasCapacity |-> TRUE, message |-> ""]

\* CheckMemoryAvailability, given the available memory of the snapshot
CheckMemoryAvailability(requestedMemory, available) ==
    IF requestedMemory > available
    THEN [hasCapacity |-> FALSE,
          message |-> "insufficient memory: requested "
                        \o Text(bytesToHumanReadable(requestedMemory))
                        \o ", available "
                        \o Text(bytesToHumanReadable(available))]
    ELSE [hasCapacity |-> TRUE, message |-> ""]

\* the nodes a cluster may have: without a memory entry, or with one
NodeKinds ==
    { [hasMemory |-> FALSE, memory |-> 0],
      [hasMemory |-> TRUE, memory |-> 3 * Mi],
      [hasMemory |-> TRUE, memory |-> 4 * Mi - 1] }

\* the pods of other workloads a cluster may run
PodKinds ==
    { [phase |-> ph, server |-> "", containers |-> cs] :
        ph \in {"Running", "Succeeded", "Failed"},
        cs \in { << [hasRequest |-> TRUE, request |-> Mi] >> } }
    \cup
    { [phase |-> "Pending", server |-> "",
       containers |-> << [hasRequest |-> TRUE, request |-> Mi],
                         [hasRequest |-> FALSE, request |-> 0] >>] }

\* the memory texts of the requests: two quantities, none, a decimal unit
MemoryTexts ==
    { <<"2", "M", "i">>, <<"3", "M", "i">>, <<>>, <<"2", "M">> }

\* the bodies POST /servers may receive: storageSize left out, or one
\* that is no quantity
Requests ==
    [name : {"a", "b"}, memory : MemoryTexts, storageSize : {<<>>}]
    \cup
    [name : {"b"}, memory : {<<"2", "M", "i">>},
     storageSize : {<<"5", "G", "B">>}]

SeqsUpTo(S, n) == UNION { [1..k -> S] : k \in 0..n }

NoResponse == [code |-> 0, error |-> ""]

\* a request that has just arrived
Arrived(req) ==
    [pc |-> "bind", req |-> req, requested |-> 0, total |-> 0,
     allocated |-> 0, available |-> 0, message |-> "", calls |-> <<>>,
     resp |-> NoResponse]

\* c.JSON(code, ...): the handler returns
Respond(h, code, error) ==
    [h EXCEPT !.pc = "done", !.resp = [code |-> code, error |-> error]]

AdmissionInit ==
    /\ rec = NoRecord
    /\ objects = [k \in KeySet |-> NoObject]
    /\ pc = "idle"
    /\ m = NoCopy
    /\ idx = 1
    /\ seen = NoSeen
    /\ ops = <<>>
    /\ result = NoResult
    /\ nextUID = 1
    /\ failures = 0
    /\ external = 0
    /\ dirty = FALSE
    /\ cleanPasses = 0
    /\ nodes \in SeqsUpTo(NodeKinds, MaxNodes)
    /\ pods \in SeqsUpTo(PodKinds, MaxPods)
    /\ servers = <<>>
    /\ handlers \in [1..MaxRequests -> { Arrived(req) : req \in Requests }]
    /\ call = NoCall

\* CreateServer up to the capacity check: ShouldBindJSON (name and memory
\* are required), isValidMemoryFormat, parseMemoryToBytes
Bind(i) ==
    LET h == handlers[i]
        parsed == parseMemoryToBytes(h.req.memory)
    IN  /\ h.pc = "bind"
        /\ handlers' = [handlers EXCEPT ![i] =
              IF h.req.name = "" \/ h.req.memory = <<>>
              THEN Respond(h, 400, "invalid_request")
              ELSE IF ~isValidMemoryFormat(h.req.memory)
              THEN Respond(h, 400, "invalid_memory")
              ELSE IF ~parsed.ok
              THEN Respond(h, 400, "invalid_memory")
              ELSE [h EXCEPT !.pc = "listNodes",
                             !.requested = parsed.value]]
        /\ UNCHANGED <<nodes, pods, servers, failures>>
        /\ UNCHANGED <<reconcilerVars, call>>

\* GetClusterMemoryResources: Nodes().List and the sum over the nodes
ListNodes(i) ==
    LET h == handlers[i]
        called == [h EXCEPT !.calls = Append(h.calls, "ListNodes")]
    IN  /\ h.pc = "listNodes"
        /\ \E fail \in FailChoices :
            /\ handlers' = [handlers EXCEPT ![i] =
                  IF fail THEN Respond(called, 500, "capacity_check_failed")
                  ELSE [called EXCEPT !.pc = "listPods",
                                      !.total = TotalMemory(nodes)]]
            /\ failures' = IF fail THEN failures + 1 ELSE failures
        /\ UNCHANGED <<nodes, pods, servers>>
        /\ UNCHANGED <<reconcilerVars, call>>

\* GetClusterMemoryResources: Pods("").List and the sum over the pods;
\* CheckMemoryAvailability and CreateServer's answer to it
ListPods(i) ==
    LET h == handlers[i]
        called == [h EXCEPT !.calls = Append(h.calls, "ListPods")]
        allocated == AllocatedMemory(pods)
        available == h.total - allocated
        check == CheckMemoryAvailability(h.requested, available)
        checked == [called EXCEPT !.allocated = allocated,
                                  !.available = available,
                                  !.message = check.message]
    IN  /\ h.pc = "listPods"
        /\ \E fail \in FailChoices :
            /\ handlers' = [handlers EXCEPT ![i] =
                  IF fail THEN Respond(called, 500, "capacity_check_failed")
                  ELSE IF ~check.hasCapacity
                  THEN Respond(checked, 400, "insufficient_capacity")
                  ELSE [checked EXCEPT !.pc = "post"]]
            /\ failures' = IF fail THEN failures + 1 ELSE failures
        /\ UNCHANGED <<nodes, pods, servers>>
        /\ UNCHANGED <<reconcilerVars, call>>

\* the record CreateServer builds: generated credentials, defaults
ServerRecord(req) ==
    [memory |-> req.memory,
     storageSize |-> IF req.storageSize = <<>> THEN <<"1", "G", "i">>
                     ELSE req.storageSize,
     sftpUsername |-> "mc-" \o req.name,
     sftpPassword |-> "pw1"]

\* CreateServer from GenerateSFTPCredentials on: the credentials (the
\* random source may fail), the defaults, the POST of the record
PostRecord(i) ==
    LET h == handlers[i]
        called == [h EXCEPT !.calls = Append(h.calls, "Post")]
    IN  /\ h.pc = "post"
        /\ \E credFail \in FailChoices, fail \in FailChoices :
            /\ ~(credFail /\ fail)
            /\ IF credFail
               THEN /\ handlers' = [handlers EXCEPT ![i] =
                          Respond(h, 500, "credential_generation_failed")]
                    /\ UNCHANGED servers
               ELSE IF fail \/ h.req.name \in DOMAIN servers
               THEN /\ handlers' = [handlers EXCEPT ![i] =
                          Respond(called, 500, "creation_failed")]
                    /\ UNCHANGED servers
               ELSE /\ handlers' = [handlers EXCEPT ![i] =
                          Respond(called, 201, "")]
                    /\ servers' = servers @@
                          (h.req.name :> ServerRecord(h.req))
            /\ failures' = IF credFail \/ fail THEN failures + 1
                           ELSE failures
        /\ UNCHANGED <<nodes, pods>>
        /\ UNCHANGED <<reconcilerVars, call>>

\* the pod of a stored server: the reconciler has created the StatefulSet
\* and the workload controller the pod of its template, whose game
\* container requests the record's memory and whose file-access container
\* requests none
PodOf(name) ==
    [phase |-> "Pending", server |-> name,
     containers |->
        << [hasRequest |-> TRUE,
            request |-> parseMemoryToBytes(servers[name].memory).value],
           [hasRequest |-> FALSE, request |-> 0] >>]

PodCreated(name) ==
    /\ name \in DOMAIN servers
    /\ \A j \in 1..Len(pods) : pods[j].server # name
    /\ pods' = Append(pods, PodOf(name))
    /\ UNCHANGED <<nodes, servers, handlers, failures>>
    /\ UNCHANGED <<reconcilerVars, call>>

CreateServer(i) == Bind(i) \/ ListNodes(i) \/ ListPods(i) \/ PostRecord(i)

AdmissionNext ==
    \/ \E i \in 1..MaxRequests : CreateServer(i)
    \/ \E name \in {"a", "b"} : PodCreated(name)

AdmissionSpec == AdmissionInit /\ [][AdmissionNext]_vars

----------------------------------------------------------------------------
(* The gateway's credentials (backend/pkg/utils/credentials.go).  Strings   *)
(* are sequences of characters.                                             *)

UsernamePrefix == <<"m", "c">>
PasswordLength == 16
\* "Limit length to 20 characters"
SanitizedLimit == 20

UpperCase == <<"A", "B", "C", "D", "E", "F", "G", "H", "I", "J", "K", "L", "M",
               "N", "O", "P", "Q", "R", "S", "T", "U", "V", "W", "X", "Y", "Z">>
LowerCase == <<"a", "b", "c", "d", "e", "f", "g", "h", "i", "j", "k", "l", "m",
               "n", "o", "p", "q", "r", "s", "t", "u", "v", "w", "x", "y", "z">>

Range(f) == { f[x] : x \in DOMAIN f }

\* strings.ReplaceAll(s, old, new) for one-character old and new
ReplaceAll(cs, old, new) ==
    [x \in 1..Len(cs) |-> IF cs[x] = old THEN new ELSE cs[x]]

\* strings.ReplaceAll(s, old, "")
RemoveAll(cs, old) == SelectSeq(cs, LAMBDA c : c # old)

\* strings.ToLower, on ASCII
ToLower(cs) ==
    [x \in 1..Len(cs) |->
        IF cs[x] \in Range(UpperCase)
        THEN LowerCase[CHOOSE k \in 1..26 : UpperCase[k] = cs[x]]
        ELSE cs[x]]

\* sanitizeServerName as it would be with the length limit applied before
\* the characters are dropped
sanitizeServerNameCutFirst(name) ==
    LET lowered == ToLower(ReplaceAll(ReplaceAll(name, "_", "-"), ".", "-"))
        cut == IF Len(lowered) > SanitizedLimit
               THEN SubSeq(lowered, 1, SanitizedLimit) ELSE lowered
    IN  SelectSeq(cut, LAMBDA c : c \in Range(LowerCase) \cup Digits \cup {"-"})

\* sanitizeServerName
sanitizeServerName(name) ==
    LET lowered == ToLower(ReplaceAll(ReplaceAll(name, "_", "-"), ".", "-"))
        kept == SelectSeq(lowered,
                    LAMBDA c : c \in Range(LowerCase) \cup Digits \cup {"-"})
    IN  IF Len(kept) > SanitizedLimit THEN SubSeq(kept, 1, SanitizedLimit)
        ELSE kept

\* the alphabet of base64.URLEncoding
URLAlphabet ==
    UpperCase \o LowerCase
        \o <<"0", "1", "2", "3", "4", "5", "6", "7", "8", "9", "-", "_">>

\* base64.URLEncoding.EncodeToString: three bytes to four characters, the
\* last group padded with '='
RECURSIVE EncodeToString(_)
EncodeToString(bs) ==
    IF bs = <<>> THEN <<>>
    ELSE IF Len(bs) = 1
    THEN << URLAlphabet[bs[1] \div 4 + 1],
            URLAlphabet[(bs[1] % 4) * 16 + 1], "=", "=" >>
    ELSE IF Len(bs) = 2
    THEN << URLAlphabet[bs[1] \div 4 + 1],
            URLAlphabet[(bs[1] % 4) * 16 + bs[2] \div 16 + 1],
            URLAlphabet[(bs[2] % 16) * 4 + 1], "=" >>
    ELSE << URLAlphabet[bs[1] \div 4 + 1],
            URLAlphabet[(bs[1] % 4) * 16 + bs[2] \div 16 + 1],
            URLAlphabet[(bs[2] % 16) * 4 + bs[3] \div 64 + 1],
            URLAlphabet[(bs[3] % 64) + 1] >>
         \o EncodeToString(SubSeq(bs, 4, Len(bs)))

\* generateSecurePassword(length), given the bytes rand.Read delivered
generateSecurePassword(length, bytes) ==
    LET encoded == EncodeToString(bytes)
        password == RemoveAll(RemoveAll(RemoveAll(encoded, "-"), "_"), "=")
    IN  IF Len(password) > length THEN SubSeq(password, 1, length)
        ELSE password

\* GenerateSFTPCredentials, given the bytes rand.Read delivered
GenerateSFTPCredentials(serverName, bytes) ==
    [username |-> UsernamePrefix \o <<"-">> \o sanitizeServerName(serverName),
     password |-> generateSecurePassword(PasswordLength, bytes)]

----------------------------------------------------------------------------
(* The functions that read no state, each applied to one argument of a     *)
(* bounded set: the five synthesis functions of the reconciler, the        *)
(* gateway's credentials and its quantity codec.                           *)

ServerNames == {"a", "a-sftp", "a-data", "a-minecraft"}

\* desired-state records with every optional field empty or set, and
\* quantities that parse or do not
SynthesisSpecs ==
    [memory : {"2Gi", ""}, storageSize : {"5Gi", ""},
     sftpUsername : {"mc-a"}, sftpPassword : {"pw1"},
     eula : BOOLEAN, version : {"", "1.19.4"}, serverType : {"", "PAPER"},
     maxPlayers : {0, 50}, difficulty : {"", "hard"},
     gamemode : {"", "creative"}]

\* the bytes the random source may deliver
RandomBytes == {0, 105, 251, 255}

\* names: a head of free characters, then a run of one letter that takes
\* the name up to, or over, the length limit
NameChars == {"A", "b", "7", "_", ".", "-", "!"}

NameInputs ==
    { head \o [x \in 1..k |-> "z"] :
        head \in SeqsUpTo(NameChars, MaxNameHead),
        k \in {0} \cup ((SanitizedLimit - 2)..(SanitizedLimit + 1)) }

\* memory texts: a sign or none, a number or none, a unit or none
MemoryInputs ==
    { sign \o number \o suffix :
        sign \in {<<>>, <<"-">>},
        number \in {<<>>, <<"0">>, <<"4", ".", "5">>, <<"5", "1", "2">>,
                    FormatNat(Power(2, 23) - 1), FormatNat(Power(2, 23))}
                    \cup { FormatNat(k) : k \in 1..MaxMagnitude },
        suffix \in {<<>>, <<"M", "i">>, <<"G", "i">>, <<"T", "i">>,
                    <<"K", "i">>, <<"P", "i">>, <<"g", "i">>, <<"m", "i">>,
                    <<"M">>, <<"G">>, <<"G", "B">>, <<"i">>} }

\* byte counts below 2^31: the multiples of the units, their neighbours and
\* the points between them where the rendering rounds
ByteInputs ==
    { b \in { k * Power(unit, e) + d * (Power(unit, e) \div 20) + o :
                k \in 1..MaxMagnitude \cup {512, 1023},
                e \in 0..2, d \in {0, 1, 5, 19}, o \in {-1, 0, 1} }
            \cup { Power(unit, 3) + d * (Power(unit, 3) \div 20) + o :
                     d \in {0, 1, 5, 10, 19}, o \in {-1, 0, 1} }
            \cup { Power(unit, 3) + (Power(unit, 3) - 1) } :
        b >= 0 }

\* what the store answers to a get or a delete of a record by name
StoreAnswers == {"ok", "NotFound", "Unavailable", "Forbidden"}

\* GetServer as it would be if it told the store's not-found from its
\* other errors
GetServerDistinct(name, out) ==
    IF name = "" THEN [code |-> 400, error |-> "invalid_request"]
    ELSE IF out = "NotFound" THEN [code |-> 404, error |-> "not_found"]
    ELSE IF out # "ok" THEN [code |-> 500, error |-> "get_failed"]
    ELSE [code |-> 200, error |-> ""]

\* GetServer, GET /servers/:name, given the store's answer: the client
\* returns an error, the store's wrapped, whenever the store gave one
GetServer(name, out) ==
    LET err == IF out # "ok" THEN <<"failed to get MinecraftServer", out>>
               ELSE <<>>
    IN  IF name = "" THEN [code |-> 400, error |-> "invalid_request"]
        ELSE IF err # <<>> THEN [code |-> 404, error |-> "not_found"]
        ELSE [code |-> 200, error |-> ""]

\* DeleteServer, DELETE /servers/:name, given the store's answer
DeleteServer(name, out) ==
    LET err == IF out # "ok" THEN <<"failed to delete MinecraftServer", out>>
               ELSE <<>>
    IN  IF name = "" THEN [code |-> 400, error |-> "invalid_request"]
        ELSE IF err # <<>> THEN [code |-> 500, error |-> "deletion_failed"]
        ELSE [code |-> 200, error |-> ""]

\* every variable of the reconciler and of the gateway at rest
AtRest ==
    /\ rec = NoRecord
    /\ objects = [k \in KeySet |-> NoObject]
    /\ pc = "idle"
    /\ m = NoCopy
    /\ idx = 1
    /\ seen = NoSeen
    /\ ops = <<>>
    /\ result = NoResult
    /\ nextUID = 1
    /\ failures = 0
    /\ external = 0
    /\ dirty = FALSE
    /\ cleanPasses = 0
    /\ NoAdmission

Called(fn, arg) == [fn |-> fn, arg |-> arg, returned |-> FALSE, result |-> <<>>]

PureInit ==
    /\ AtRest
    /\ \/ \E name \in ServerNames, spec \in SynthesisSpecs :
            call = Called("synthesize", [name |-> name, spec |-> spec])
       \/ \E name \in NameInputs :
            call = Called("GenerateSFTPCredentials", name)
       \/ \E length \in 1..MaxPasswordLength :
            \E bytes \in [1..length -> RandomBytes] :
                call = Called("generateSecurePassword",
                              [length |-> length, bytes |-> bytes])
       \/ \E memory \in MemoryInputs :
            call = Called("parseMemoryToBytes", memory)
       \/ \E bytes \in ByteInputs :
            call = Called("bytesToHumanReadable", bytes)
       \/ \E fn \in {"GetServer", "DeleteServer"},
             name \in ServerNames \cup {""}, out \in StoreAnswers :
            call = Called(fn, [name |-> name, store |-> out])

Returns(value) ==
    /\ ~call.returned
    /\ call' = [call EXCEPT !.returned = TRUE, !.result = value]
    /\ UNCHANGED <<reconcilerVars, admissionVars, failures>>

\* the five synthesis functions in the order of Reconcile; a panic of
\* resource.MustParse ends the sequence
CallSynthesize ==
    /\ call.fn = "synthesize"
    /\ LET panics == \E i \in 1..5 : SynthesisPanics(i, call.arg.spec)
       IN  Returns([panicked |-> panics,
                    objects |->
                       IF panics THEN <<>>
                       ELSE [i \in 1..5 |->
                               Synthesize(i, call.arg.name, call.arg.spec)]])

\* GenerateSFTPCredentials; the random source delivers zero bytes
CallGenerateSFTPCredentials ==
    /\ call.fn = "GenerateSFTPCredentials"
    /\ Returns(GenerateSFTPCredentials(call.arg,
                                       [x \in 1..PasswordLength |-> 0]))

CallGenerateSecurePassword ==
    /\ call.fn = "generateSecurePassword"
    /\ Returns(generateSecurePassword(call.arg.length, call.arg.bytes))

\* the memory text as CreateServer takes it: isValidMemoryFormat, then
\* parseMemoryToBytes on what passed; the result is kept as the quantity
\* (number, base, exponent, capped or not) and, where it is below 2^31, as
\* the byte count
CallParseMemory ==
    /\ call.fn = "parseMemoryToBytes"
    /\ LET valid == isValidMemoryFormat(call.arg)
           q == ParseQuantity(call.arg)
           small == \/ q.exp = 20 /\ q.magnitude < 2048
                    \/ q.exp = 30 /\ q.magnitude < 2
       IN  Returns([valid |-> valid,
                    ok |-> valid /\ q.ok,
                    quantity |-> IF valid THEN q ELSE ParseQuantity(<<>>),
                    value |-> IF valid /\ q.ok /\ small
                              THEN parseMemoryToBytes(call.arg).value
                              ELSE 0])

CallBytesToHumanReadable ==
    /\ call.fn = "bytesToHumanReadable"
    /\ Returns(bytesToHumanReadable(call.arg))

CallGetServer ==
    /\ call.fn = "GetServer"
    /\ Returns(GetServer(call.arg.name, call.arg.store))

CallDeleteServer ==
    /\ call.fn = "DeleteServer"
    /\ Returns(DeleteServer(call.arg.name, call.arg.store))

PureNext ==
    \/ CallSynthesize
    \/ CallGenerateSFTPCredentials
    \/ CallGenerateSecurePassword
    \/ CallParseMemory
    \/ CallBytesToHumanReadable
    \/ CallGetServer
    \/ CallDeleteServer

PureSpec == PureInit /\ [][PureNext]_vars

----------------------------------------------------------------------------
(* What the properties below speak about *)

\* a step taken by the Reconcile pass (every step of the pass moves pc or
\* logs a store call; no step of another writer does)
PassStep == pc' # pc \/ ops' # ops

LastOp == ops[Len(ops)]

\* the last pass ran to the end: all steps done, status written
PassSucceeded ==
    pc = "done" /\ result.err = "" /\ result.requeueAfter = RequeueSeconds

\* a store call whose outcome Reconcile treats as an error: anything but
\* ok, except not-found on the fetch of the record and on the Get of
\* createOrUpdateResource
Failed(e) ==
    /\ e.out # "ok"
    /\ ~(e.op \in {"GetRecord", "Get"} /\ e.out = "NotFound")

RecordKey == <<"MinecraftServer", ServerName>>

SameButLastUpdated(s1, s2) ==
    [s1 EXCEPT !.lastUpdated = 0] = [s2 EXCEPT !.lastUpdated = 0]

AllFiveExist ==
    /\ objects[<<"Secret", "srv-sftp">>].exists
    /\ objects[<<"PersistentVolumeClaim", "srv-data">>].exists
    /\ objects[<<"StatefulSet", "srv">>].exists
    /\ objects[<<"Service", "srv-minecraft">>].exists
    /\ objects[<<"Service", "srv-sftp">>].exists

\* the keys the pass has created an object under
CreatedInPass ==
    { ops[i].key : i \in { j \in 1..Len(ops) :
                             ops[j].op = "Create" /\ ops[j].out = "ok" } }

----------------------------------------------------------------------------
(* C1: Reconcile is idempotent.  Once a pass has ended without error and   *)
(* nothing but the reconciler has written to the store since that pass     *)
(* began, no step of the next pass creates, modifies or removes an owned   *)
(* object, and the status it writes equals the stored one (the first       *)
(* pass's) in every field but lastUpdated; the record is otherwise left    *)
(* as it is.                                                               *)
C1_Idempotent ==
    [][ (cleanPasses >= 1 /\ PassStep) =>
          /\ objects' = objects
          /\ rec' = [rec EXCEPT !.status = rec'.status]
          /\ SameButLastUpdated(rec'.status, rec.status) ]_vars

\* a second undisturbed pass has ended, over a workload that has started
\* and a game Service with an address
C1_Witness ==
    /\ cleanPasses = 2
    /\ pc = "done"
    /\ rec.status.phase = "Starting"
    /\ rec.status.endpoint = "10.0.0.1:25565"

----------------------------------------------------------------------------
(* C2: a pass that runs to the end without error, with no other writer     *)
(* touching the store meanwhile, leaves all five owned objects in the      *)
(* store: Secret srv-sftp, PersistentVolumeClaim srv-data, StatefulSet     *)
(* srv, Service srv-minecraft and Service srv-sftp - in particular when    *)
(* none of them existed and the pass created all five.                     *)
C2_CreatesAllFive ==
    (PassSucceeded /\ ~dirty) => AllFiveExist

\* a pass that found none of the five and created them all has ended
C2_Witness ==
    /\ PassSucceeded
    /\ ~dirty
    /\ Cardinality(CreatedInPass) = 5
    /\ AllFiveExist

----------------------------------------------------------------------------
(* C3: create-if-absent, no drift correction.  A step of the pass never    *)
(* changes or removes an object that exists, whatever its content; the     *)
(* only step that changes the store's objects is a successful Create of    *)
(* the object whose Get, the call before, returned not-found.              *)
C3_NoDriftCorrection ==
    [][ PassStep =>
          \A k \in KeySet :
             /\ objects[k].exists => objects'[k] = objects[k]
             /\ objects'[k] # objects[k] =>
                  /\ pc = "create"
                  /\ LastOp = [op |-> "Get", key |-> k, out |-> "NotFound"]
                  /\ ops'[Len(ops')] =
                        [op |-> "Create", key |-> k, out |-> "ok"] ]_vars

\* the pass has just found, and passed over, a Secret whose content is not
\* the one it synthesized
C3_Witness ==
    /\ PassActive
    /\ Len(ops) > 0
    /\ LastOp = [op |-> "Get", key |-> SecretKey(ServerName), out |-> "ok"]
    /\ objects[SecretKey(ServerName)].exists
    /\ objects[SecretKey(ServerName)].data
          # secretForMinecraftServer(ServerName, m.spec).data

----------------------------------------------------------------------------
(* C4: the finalizer comes first.  The pass is past the finalizer gate     *)
(* only with a copy of the record that carries the finalizer; a pass       *)
(* whose finalizer update failed has created nothing; and a live record    *)
(* for which the reconciler has created an object carries the finalizer.   *)
C4_FinalizerFirst ==
    /\ pc \in {"get", "create", "readSts", "readMinecraftSvc",
               "readSftpSvc", "statusUpdate"}
          => finalizerName \in m.finalizers
    /\ (\E i \in 1..Len(ops) :
            ops[i].op = "UpdateRecord" /\ ops[i].out # "ok")
          => CreatedInPass = {}
    /\ (Live(rec) /\ \E k \in KeySet :
            objects[k].exists /\ objects[k].createdFor = rec.uid)
          => finalizerName \in rec.finalizers

\* the pass that attached the finalizer has gone on to create an object
C4_Witness ==
    /\ Len(ops) >= 2
    /\ ops[2] = [op |-> "UpdateRecord", key |-> RecordKey, out |-> "ok"]
    /\ CreatedInPass # {}
    /\ Live(rec)
    /\ finalizerName \in rec.finalizers

----------------------------------------------------------------------------
(* C5: the deletion path.  A pass that fetches a record marked for         *)
(* deletion goes to the removal of the finalizer when the record carries   *)
(* it and returns success without requeue otherwise; the removal is the    *)
(* pass's only other store call, it touches no owned object and no         *)
(* status, and when it succeeds the record is gone from the store (the     *)
(* next fetch returns not-found) and the pass returns success without      *)
(* requeue.  (When the removal fails the pass returns that error: C8.)     *)
C5_DeletionPath ==
    /\ [][ (pc = "fetch" /\ rec.exists /\ rec.deleting
              /\ ops' = <<[op |-> "GetRecord", key |-> RecordKey,
                           out |-> "ok"]>>) =>
             /\ UNCHANGED <<rec, objects>>
             /\ IF finalizerName \in rec.finalizers
                THEN pc' = "removeFinalizer"
                ELSE pc' = "done" /\ result' = NoResult ]_vars
    /\ [][ (pc = "removeFinalizer" /\ PassStep) =>
             /\ pc' = "done"
             /\ objects' = objects
             /\ Len(ops') = 2
             /\ ops'[2].op = "UpdateRecord"
             /\ result'.requeueAfter = 0
             /\ IF ops'[2].out = "ok"
                THEN /\ result' = NoResult
                     /\ ~rec'.exists
                     /\ GetOutcome(FALSE, rec') = "NotFound"
                ELSE rec' = rec ]_vars

\* the pass has removed the finalizer and the record is gone
C5_Witness ==
    /\ pc = "done"
    /\ ops = << [op |-> "GetRecord", key |-> RecordKey, out |-> "ok"],
                [op |-> "UpdateRecord", key |-> RecordKey, out |-> "ok"] >>
    /\ result = NoResult
    /\ ~rec.exists

----------------------------------------------------------------------------
\* a record was stored with UID u and is gone from the store
RecordGone(u) == nextUID > u /\ ~(rec.exists /\ rec.uid = u)

\* no object that a pass created for the record with UID u is left
NoneCreatedFor(u) ==
    \A k \in KeySet : ~(objects[k].exists /\ objects[k].createdFor = u)

(* C6 as stated: once the record is gone, every object under the five      *)
(* names is eventually removed.                                            *)
C6_Original ==
    (nextUID > 1 /\ ~rec.exists) ~> (\A k \in KeySet : ~objects[k].exists)

(* C6, amended: transitive removal of what the reconciler created.  A pass *)
(* creates an object only while the record it works for is in the store,   *)
(* and once a record is gone every object a pass created for it is         *)
(* eventually removed by the garbage collector.  (An object put under one  *)
(* of the names by hand carries no back-reference and stays.)              *)
C6_CreatedCollected ==
    /\ [][ PassStep =>
             \A k \in KeySet :
                objects'[k] # objects[k] =>
                   /\ rec.exists
                   /\ objects'[k].createdFor = rec.uid ]_vars
    /\ \A u \in 1..MaxUID : RecordGone(u) ~> NoneCreatedFor(u)

\* the record is gone and, nobody having deleted by hand, the collector has
\* removed the Secret and not yet the StatefulSet of the record
C6_Witness ==
    /\ RecordGone(1)
    /\ external = 0
    /\ ~objects[SecretKey(ServerName)].exists
    /\ objects[StatefulSetKey(ServerName)].exists
    /\ objects[StatefulSetKey(ServerName)].createdFor = 1

----------------------------------------------------------------------------
(* C7: not-found is terminal success.  The fetch is the pass's first store *)
(* call and writes nothing; on not-found the pass returns no error and no  *)
(* requeue, having made no other store call; on any other failure of the   *)
(* fetch it returns that error; and the fetch of a key with no record      *)
(* ends in one of the two.                                                 *)
C7_NotFoundTerminal ==
    [][ (pc = "fetch" /\ PassStep) =>
          /\ Len(ops') = 1
          /\ ops'[1].op = "GetRecord"
          /\ UNCHANGED <<rec, objects>>
          /\ ops'[1].out = "NotFound"
                => pc' = "done" /\ result' = NoResult
          /\ ops'[1].out \notin {"ok", "NotFound"}
                => /\ pc' = "done"
                   /\ result' = [requeueAfter |-> 0, err |-> ops'[1].out]
          /\ ~rec.exists => ops'[1].out \in {"NotFound", "StoreError"}
          /\ rec.exists => ops'[1].out \in {"ok", "StoreError"} ]_vars

\* a pass for a key without a record has returned
C7_Witness ==
    /\ pc = "done"
    /\ ops = << [op |-> "GetRecord", key |-> RecordKey, out |-> "NotFound"] >>
    /\ result = NoResult
    /\ ~rec.exists

----------------------------------------------------------------------------
(* C8: abort without rollback.  A failed store call is the last call of    *)
(* its pass and the pass returns its error, without requeue; the failing   *)
(* call leaves the record and the owned objects as they are; and with no   *)
(* other writer in between, every object the pass created before is still  *)
(* in the store when it returns.                                           *)
C8_AbortNoRollback ==
    /\ [](\A i \in 1..(Len(ops) - 1) : ~Failed(ops[i]))
    /\ []((Len(ops) > 0 /\ Failed(LastOp)) =>
             /\ pc = "done"
             /\ result = [requeueAfter |-> 0, err |-> LastOp.out])
    /\ [][ (PassStep /\ Len(ops') > Len(ops) /\ Failed(ops'[Len(ops')])) =>
             UNCHANGED <<rec, objects>> ]_vars
    /\ []((pc = "done" /\ result.err # "" /\ ~dirty) =>
             \A k \in CreatedInPass : objects[k].exists)

\* a pass has created an object, then failed on a later call and returned
C8_Witness ==
    /\ pc = "done"
    /\ Len(ops) > 0
    /\ Failed(LastOp)
    /\ result.err = LastOp.out
    /\ CreatedInPass # {}
    /\ \A k \in CreatedInPass : objects[k].exists

----------------------------------------------------------------------------
\* the record is live and its quantities parse
LiveValid ==
    /\ Live(rec)
    /\ QuantityParses(rec.spec.memory)
    /\ QuantityParses(rec.spec.storageSize)

Provisioned == AllFiveExist /\ rec.exists /\ rec.status # NoStatus

(* C9: forward progress.  With passes retried, store calls failing and     *)
(* objects changed by hand finitely often, a record that stays live with   *)
(* valid quantities ends up with its five objects in the store and a       *)
(* status written, and stays so.                                           *)
C9_ForwardProgress == <>[]LiveValid => <>[]Provisioned

\* provisioned after a store call has failed and an object was changed by
\* hand
C9_Witness ==
    /\ failures >= 1
    /\ external >= 1
    /\ LiveValid
    /\ Provisioned
    /\ PassSucceeded

----------------------------------------------------------------------------
(* C10 as stated: after an error-free pass each object under the five      *)
(* names carries a back-reference to the record.                           *)
C10_Original ==
    (PassSucceeded /\ ~dirty /\ rec.exists) =>
        \A k \in KeySet : objects[k].exists /\ objects[k].owner = rec.uid

(* C10, amended: ownership of what the reconciler created.  Every object   *)
(* a pass created carries the back-reference to the record the pass        *)
(* worked for; an object that was put under one of the names otherwise is  *)
(* left as it was, without one.                                            *)
C10_CreatedCarryOwner ==
    \A k \in KeySet :
       objects[k].exists =>
          /\ objects[k].createdFor # 0 => objects[k].owner = objects[k].createdFor
          /\ objects[k].createdFor = 0 => objects[k].owner = 0

\* an error-free pass has ended over a Secret it did not create and a
\* StatefulSet it did
C10_Witness ==
    /\ PassSucceeded
    /\ ~dirty
    /\ rec.exists
    /\ objects[SecretKey(ServerName)].exists
    /\ objects[SecretKey(ServerName)].owner = 0
    /\ objects[StatefulSetKey(ServerName)].exists
    /\ objects[StatefulSetKey(ServerName)].owner = rec.uid

----------------------------------------------------------------------------
\* the step in which r.Status().Update stores the status
StatusWrite == pc = "statusUpdate" /\ pc' = "done" /\ result'.err = ""

----------------------------------------------------------------------------
\* the message that goes with a phase
FixedMessage(phase) ==
    CASE phase = "Pending" -> "Creating resources"
      [] phase = "Starting" -> "Server is starting"
      [] phase = "Running" -> "Server is running"
      [] OTHER -> ""

----------------------------------------------------------------------------
----------------------------------------------------------------------------
(* C20: with one ready replica and node ports p and q on the two Services, *)
(* updateStatus writes phase Running, endpoint "<node-ip>:p" and           *)
(* sftpEndpoint "<node-ip>:q".                                             *)
C20_NodePortEndpoints ==
    [][ ( /\ StatusWrite
          /\ objects[StatefulSetKey(ServerName)].readyReplicas = 1
          /\ objects[MinecraftSvcKey(ServerName)].nodePort # 0
          /\ objects[SFTPSvcKey(ServerName)].nodePort # 0 )
        => /\ rec'.status.phase = "Running"
           /\ rec'.status.endpoint = "<node-ip>:" \o
                 ToString(objects[MinecraftSvcKey(ServerName)].nodePort)
           /\ rec'.status.sftpEndpoint = "<node-ip>:" \o
                 ToString(objects[SFTPSvcKey(ServerName)].nodePort) ]_vars

----------------------------------------------------------------------------
(* What the properties of the admission path speak about *)

\* the request has passed the capacity check
Authorized(h) ==
    \/ h.pc = "post"
    \/ h.pc = "done" /\ h.resp.error \in {"credential_generation_failed",
                                          "creation_failed"}
    \/ h.pc = "done" /\ h.resp.code = 201

\* the request's record is in the store
Admitted(h) == h.pc = "done" /\ h.resp.code = 201

\* handler i takes a step
HandlerStep(i) == handlers'[i] # handlers[i]

\* handler i gets the answer of the capacity check
CapacityAnswer(i) ==
    /\ handlers[i].pc = "listPods"
    /\ HandlerStep(i)
    /\ handlers'[i].resp.error # "capacity_check_failed"

RECURSIVE SumOf(_, _)
SumOf(f, S) ==
    IF S = {} THEN 0
    ELSE LET x == CHOOSE y \in S : TRUE
         IN  f[x] + SumOf(f, S \ {x})

\* the memory of the servers whose record is stored
AdmittedMemory ==
    SumOf([n \in DOMAIN servers |->
              DecimalValue(SubSeq(servers[n].memory, 1,
                                  Len(servers[n].memory) - 2)) * Mi],
          DOMAIN servers)

\* the memory reserved by the pods of other workloads that are neither
\* completed nor failed
OtherReservations ==
    SumOf([j \in 1..Len(pods) |->
              IF pods[j].server = "" /\ pods[j].phase \notin {"Succeeded", "Failed"}
              THEN SumOf([c \in 1..Len(pods[j].containers) |->
                             IF pods[j].containers[c].hasRequest
                             THEN pods[j].containers[c].request ELSE 0],
                         1..Len(pods[j].containers))
              ELSE 0],
          1..Len(pods))

\* the allocatable memory of the cluster
Allocatable ==
    SumOf([j \in 1..Len(nodes) |->
              IF nodes[j].hasMemory THEN nodes[j].memory ELSE 0],
          1..Len(nodes))

----------------------------------------------------------------------------
----------------------------------------------------------------------------
\* the admitted servers and the other workloads fit the cluster
Fits == AdmittedMemory + OtherReservations <= Allocatable

(* C13: capacity checking prevents over-allocation: no step takes the      *)
(* system from a state in which the memory of the admitted servers and of  *)
(* the other non-terminal workloads fits the cluster's allocatable memory  *)
(* to one in which it does not.                                            *)
C13_NoOverAllocation == [][ Fits => Fits' ]_vars

----------------------------------------------------------------------------
\* the text is digits, then Mi, Gi or Ti
MatchesQuantityPattern(text) ==
    \E d \in 1..(Len(text) - 2) :
        /\ \A j \in 1..d : text[j] \in Digits
        /\ SubSeq(text, d + 1, Len(text)) \in
              { <<"M", "i">>, <<"G", "i">>, <<"T", "i">> }

IsPrefix(a, b) == Len(a) <= Len(b) /\ a = SubSeq(b, 1, Len(a))

(* C14: no mutation on admission failure.  A request makes its calls in    *)
(* the order capacity check (nodes, pods), then the write of the record;   *)
(* a request without memory or with a malformed memory text is answered    *)
(* invalid_request / invalid_memory without any call; a record is written *)
(* only by a request that passed validation and the capacity check and     *)
(* got its credentials; a request answered with an error leaves records    *)
(* and pods as they are; and only stored records have pods.                *)
C14_NoMutationOnFailure ==
    /\ [](\A i \in 1..MaxRequests :
            LET h == handlers[i]
            IN  /\ IsPrefix(h.calls, <<"ListNodes", "ListPods", "Post">>)
                /\ h.resp.error \in {"invalid_request", "invalid_memory"}
                      => h.calls = <<>>
                /\ ~MatchesQuantityPattern(h.req.memory)
                      => /\ h.calls = <<>>
                         /\ h.pc \in {"bind", "done"}
                         /\ h.pc = "done" =>
                               h.resp = [code |-> 400, error |->
                                  IF h.req.memory = <<>> THEN "invalid_request"
                                  ELSE "invalid_memory"]
                /\ h.resp.error = "insufficient_capacity"
                      => /\ h.calls = <<"ListNodes", "ListPods">>
                         /\ h.requested > h.available)
    /\ [][ servers' # servers =>
             \E i \in 1..MaxRequests :
                /\ handlers[i].pc = "post"
                /\ handlers'[i].resp = [code |-> 201, error |-> ""]
                /\ handlers'[i].calls = <<"ListNodes", "ListPods", "Post">>
                /\ handlers[i].requested <= handlers[i].available
                /\ handlers[i].req.name \notin DOMAIN servers
                /\ DOMAIN servers' = DOMAIN servers \cup {handlers[i].req.name}
                /\ servers'[handlers[i].req.name].sftpPassword # "" ]_vars
    /\ [][ \A i \in 1..MaxRequests :
             (HandlerStep(i) /\ handlers'[i].pc = "done"
                  /\ handlers'[i].resp.code # 201)
                => UNCHANGED <<servers, pods>> ]_vars
    /\ [](\A j \in 1..Len(pods) :
             pods[j].server # "" => pods[j].server \in DOMAIN servers)

\* one request was refused for its memory text before any call, another
\* for capacity after the two list calls, and no record is stored
C14_Witness ==
    /\ handlers[1].resp = [code |-> 400, error |-> "invalid_memory"]
    /\ handlers[1].calls = <<>>
    /\ handlers[2].resp = [code |-> 400, error |-> "insufficient_capacity"]
    /\ handlers[2].calls = <<"ListNodes", "ListPods">>
    /\ servers = <<>>

----------------------------------------------------------------------------
(* C15: exact capacity boundary.  The capacity check answers ok exactly    *)
(* if the requested bytes are at most the available bytes of the snapshot; *)
(* an ok answer has an empty reason, a refusal is answered                 *)
(* insufficient_capacity with a reason.                                    *)
C15_ExactBoundary ==
    [][ \A i \in 1..MaxRequests :
          CapacityAnswer(i) =>
             LET h == handlers'[i]
             IN  /\ h.pc = "post" <=> h.requested <= h.available
                 /\ h.pc = "post" => h.message = ""
                 /\ h.pc # "post" =>
                       /\ h.resp = [code |-> 400,
                                    error |-> "insufficient_capacity"]
                       /\ h.message # "" ]_vars

\* a request for exactly the available memory is authorized while another
\* one was refused
C15_Witness ==
    \E i, j \in 1..MaxRequests :
        /\ handlers[i].pc = "post"
        /\ handlers[i].available > 0
        /\ handlers[i].requested = handlers[i].available
        /\ handlers[j].resp.error = "insufficient_capacity"

----------------------------------------------------------------------------
(* C16: capacity snapshot.  What a request reads is: total, the sum of the *)
(* allocatable memory of every node; allocated, the sum of the memory      *)
(* requests of every container of every pod, of whatever workload, whose   *)
(* phase is neither Succeeded nor Failed; available, total - allocated.    *)
C16_Snapshot ==
    [][ \A i \in 1..MaxRequests :
          CapacityAnswer(i) =>
             LET h == handlers'[i]
                 requests(j) ==
                     SumOf([c \in 1..Len(pods[j].containers) |->
                               IF pods[j].containers[c].hasRequest
                               THEN pods[j].containers[c].request ELSE 0],
                           1..Len(pods[j].containers))
             IN  /\ h.total = Allocatable
                 /\ h.allocated =
                       SumOf([j \in 1..Len(pods) |->
                                 IF pods[j].phase \in {"Succeeded", "Failed"}
                                 THEN 0 ELSE requests(j)],
                             1..Len(pods))
                 /\ h.available = h.total - h.allocated ]_vars

\* a request has read a cluster of two nodes in which a failed pod of
\* another workload and the pod of an admitted server are listed
C16_Witness ==
    \E i \in 1..MaxRequests :
        /\ Len(handlers[i].calls) >= 2
        /\ Len(nodes) = 2
        /\ Len(pods) = 2
        /\ pods[1].phase = "Failed"
        /\ pods[2].server # ""
        /\ handlers[i].allocated = 2 * Mi
        /\ handlers[i].available = handlers[i].total - 2 * Mi

----------------------------------------------------------------------------
(* C21: the requeue request.  A pass that has returned asks for a requeue  *)
(* after 30 s exactly when it made every store call of the live path and   *)
(* its last one, the status write, succeeded: it settled each of the five  *)
(* owned objects, read three of them back and wrote the status.  A pass    *)
(* that ended on not-found of the record or on the deletion path returned  *)
(* success with no requeue, and a pass that ended on a failed store call   *)
(* returned that error with no requeue delay of its own.                   *)
C21_WholePass ==
    /\ Len(ops) > 0
    /\ LastOp.op = "UpdateStatus"
    /\ LastOp.out = "ok"
    /\ \A i \in 1..5 :
          \E n \in 1..Len(ops) :
              /\ ops[n].key = OwnedKeys(ServerName)[i]
              /\ \/ ops[n].op = "Get" /\ ops[n].out = "ok"
                 \/ ops[n].op = "Create" /\ ops[n].out = "ok"
    /\ Cardinality({ n \in 1..Len(ops) :
                       ops[n].op = "ReadBack" /\ ops[n].out = "ok" }) = 3

C21_Requeue ==
    (pc = "done" /\ ops # <<>>) =>
        /\ result.requeueAfter \in {0, RequeueSeconds}
        /\ (result.requeueAfter = RequeueSeconds) <=> C21_WholePass
        /\ C21_WholePass => result.err = ""
        /\ (LastOp.op = "GetRecord" /\ LastOp.out \in {"NotFound", "ok"})
              => result = NoResult
        /\ (Len(ops) = 2 /\ LastOp.op = "UpdateRecord" /\ LastOp.out = "ok")
              => result = NoResult
        /\ Failed(LastOp)
              => result = [requeueAfter |-> 0, err |-> LastOp.out]

\* a pass wrote the status of a running server and asked for the requeue
C21_Witness ==
    /\ pc = "done"
    /\ C21_WholePass
    /\ result = [requeueAfter |-> RequeueSeconds, err |-> ""]
    /\ rec.exists
    /\ rec.status.phase = "Running"

----------------------------------------------------------------------------
(* C22: no name collisions.  The (kind, name) of each synthesized object   *)
(* is the key Reconcile uses for it, which depends on the server's name    *)
(* alone: any other record under that name gives the same five.  The five  *)
(* of one server are pairwise distinct, and none of them is among the      *)
(* five of a server with another name, also where one name is another      *)
(* name followed by "-sftp", "-data" or "-minecraft".                      *)
Synthesized == call.fn = "synthesize" /\ call.returned /\ ~call.result.panicked

IdentityOf(obj) == <<obj.manifest.kind, obj.manifest.name>>

C22_NoCollisions ==
    Synthesized =>
        LET ids == [i \in 1..5 |-> IdentityOf(call.result.objects[i])]
        IN  /\ ids = OwnedKeys(call.arg.name)
            /\ \A spec \in SynthesisSpecs, i \in 1..5 :
                  IdentityOf(Synthesize(i, call.arg.name, spec)) = ids[i]
            /\ \A i, j \in 1..5 : i # j => ids[i] # ids[j]
            /\ \A other \in ServerNames \ {call.arg.name} :
                  \A i, j \in 1..5 :
                      ids[i] # IdentityOf(Synthesize(j, other, call.arg.spec))

\* the five objects of the server "a-sftp" are synthesized: its StatefulSet
\* carries the name of a Secret and of a Service of the server "a"
C22_Witness ==
    /\ Synthesized
    /\ call.arg.name = "a-sftp"
    /\ IdentityOf(call.result.objects[3])[2]
          = IdentityOf(Synthesize(5, "a", call.arg.spec))[2]
    /\ IdentityOf(call.result.objects[3])[2]
          = IdentityOf(Synthesize(1, "a", call.arg.spec))[2]

----------------------------------------------------------------------------
(* C23: the generated password.  For every requested length and every      *)
(* outcome of the random source the password has exactly the requested     *)
(* number of characters, each of them a letter or a digit.                  *)
C23_ExactLength ==
    (call.fn = "generateSecurePassword" /\ call.returned) =>
        /\ Len(call.result) = call.arg.length
        /\ \A x \in 1..Len(call.result) :
              call.result[x] \in Range(UpperCase) \cup Range(LowerCase)
                                    \cup Digits

----------------------------------------------------------------------------
(* C24: the sanitized name and the username.  The username is "mc-"        *)
(* followed by the sanitized name, and the sanitized name is the server    *)
(* name with '_' and '.' turned into '-' and letters lowercased, without   *)
(* the characters outside a-z, 0-9 and '-', cut to its first 20            *)
(* characters: it has at most 20 characters, all of them in that set.      *)
C24_Allowed == Range(LowerCase) \cup Digits \cup {"-"}

C24_Mapped(c) ==
    IF c \in {"_", "."} THEN "-"
    ELSE IF \E k \in 1..26 : UpperCase[k] = c
         THEN LowerCase[CHOOSE k \in 1..26 : UpperCase[k] = c]
    ELSE c

C24_Expected(name) ==
    LET kept == SelectSeq([x \in 1..Len(name) |-> C24_Mapped(name[x])],
                          LAMBDA c : c \in C24_Allowed)
    IN  [x \in 1..(IF Len(kept) < 20 THEN Len(kept) ELSE 20) |-> kept[x]]

C24_Sanitize ==
    (call.fn = "GenerateSFTPCredentials" /\ call.returned) =>
        LET username == call.result.username
            out == SubSeq(username, 4, Len(username))
        IN  /\ Len(username) >= 3
            /\ SubSeq(username, 1, 3) = <<"m", "c", "-">>
            /\ out = C24_Expected(call.arg)
            /\ Len(out) <= 20
            /\ \A x \in 1..Len(out) : out[x] \in C24_Allowed

\* a name of 23 characters that begins with a capital and a '!' got its
\* username: 20 characters after "mc-", the capital lowercased
C24_Witness ==
    /\ call.fn = "GenerateSFTPCredentials"
    /\ call.returned
    /\ Len(call.arg) = 23
    /\ call.arg[1] = "A"
    /\ call.arg[2] = "!"
    /\ Len(call.result.username) = 23
    /\ call.result.username[4] = "a"
    /\ call.result.username[5] = "z"

----------------------------------------------------------------------------
(* C25: the quantity grammar.  As claimed: CreateServer accepts a memory   *)
(* text exactly when it is one or more digits followed by Mi, Gi or Ti;    *)
(* an accepted text with the number m parses to m * 1024^2, m * 1024^3 or  *)
(* m * 1024^4 bytes; a text with a decimal point, without a unit, with a   *)
(* lowercase unit, with a sign or with another unit is rejected.           *)
C25_InGrammar(text) ==
    /\ Len(text) >= 3
    /\ \A x \in 1..(Len(text) - 2) : text[x] \in Digits
    /\ <<text[Len(text) - 1], text[Len(text)]>>
          \in {<<"M", "i">>, <<"G", "i">>, <<"T", "i">>}

\* acceptance, and the product m * 2^20, m * 2^30 or m * 2^40 of an
\* accepted text (the byte count itself is compared where it is below 2^31)
C25_Grammar ==
    LET text == call.arg
        n == Len(text)
        res == call.result
        number == DecimalValue(SubSeq(text, 1, n - 2))
    IN  /\ res.ok <=> C25_InGrammar(text)
        /\ res.ok =>
             /\ res.quantity.magnitude = number
             /\ res.quantity.base = 2
             /\ text[n - 1] = "M" =>
                   /\ res.quantity.exp = 20
                   /\ number < 2048 => res.value = number * 1024 * 1024
             /\ text[n - 1] = "G" =>
                   /\ res.quantity.exp = 30
                   /\ number = 1 => res.value = 1024 * 1024 * 1024
             /\ text[n - 1] = "T" => res.quantity.exp = 40
        /\ (\E x \in 1..n : text[x] \in {".", "-"}) => ~res.ok
        /\ (n = 0 \/ text[n] \in Digits) => ~res.ok
        /\ (n >= 2 /\ text[n - 1] \in {"g", "m", "K", "P"}) => ~res.ok
        /\ (n >= 1 /\ text[n] \in {"M", "G", "B"}) => ~res.ok

C25_Original ==
    (call.fn = "parseMemoryToBytes" /\ call.returned) =>
        /\ C25_Grammar
        /\ call.result.ok => ~call.result.quantity.capped

(* C25 as the code has it: the same, except that an accepted text whose    *)
(* product exceeds 2^63 - 1 parses to 2^63 - 1: with Ti, a number of       *)
(* 8388608 (2^23) or more.                                                  *)
C25_QuantityGrammar ==
    (call.fn = "parseMemoryToBytes" /\ call.returned) =>
        /\ C25_Grammar
        /\ call.result.ok =>
              (call.result.quantity.capped <=>
                  /\ call.arg[Len(call.arg) - 1] = "T"
                  /\ call.result.quantity.magnitude \div 8388608 >= 1)

\* "8388608Ti" was accepted and parsed to the cap
C25_Witness ==
    /\ call.fn = "parseMemoryToBytes"
    /\ call.returned
    /\ call.arg = <<"8", "3", "8", "8", "6", "0", "8", "T", "i">>
    /\ call.result.ok
    /\ call.result.quantity.exp = 40
    /\ call.result.quantity.capped

----------------------------------------------------------------------------
(* C26: the round trip of the quantity codec.  As claimed: for every byte  *)
(* count n that is a number times 1024^k with k in 0..3, the text that     *)
(* bytesToHumanReadable gives for n is accepted by the parser and parses   *)
(* back to n.                                                               *)
C26_Exact ==
    /\ call.fn = "bytesToHumanReadable"
    /\ call.returned
    /\ \E k \in 0..3 : call.arg >= Power(unit, k)
                        /\ call.arg % Power(unit, k) = 0

C26_RoundTrip ==
    C26_Exact =>
        /\ isValidMemoryFormat(call.result)
        /\ parseMemoryToBytes(call.result) = [ok |-> TRUE, value |-> call.arg]

(* C26 as the code has it: the text of such a byte count is never in the   *)
(* parser's grammar.  It ends in " B" or in a fractional digit, a space    *)
(* and KiB, MiB or GiB, so isValidMemoryFormat rejects it, ParseQuantity   *)
(* does not parse it, and parseHumanReadableToBytes does not either.       *)
C26_NoRoundTrip ==
    C26_Exact =>
        LET text == call.result
            n == Len(text)
        IN  /\ text[n] = "B"
            /\ " " \in Range(text)
            /\ call.arg >= unit => text[n - 5] = "." /\ text[n - 1] = "i"
            /\ ~isValidMemoryFormat(text)
            /\ ~ParseQuantity(text).ok
            /\ ~parseHumanReadableToBytes(text).ok

\* 2 * 1024^2 bytes were rendered as "2.0 MiB"
C26_Witness ==
    /\ C26_Exact
    /\ call.arg = 2 * Mi
    /\ call.result = <<"2", ".", "0", " ", "M", "i", "B">>

----------------------------------------------------------------------------
(* C27: the unit bytesToHumanReadable picks.  A byte count b below 1024 is *)
(* rendered as the whole number and " B" with no fractional digit ("0 B"   *)
(* for 0).  Any other b is rendered in the unit KiB, MiB, ... of the index *)
(* k with 1 <= b / 1024^k < 1024, as that quotient rounded to exactly one  *)
(* fractional digit.  As claimed, the rendered number is then at least 1   *)
(* and below 1024; as the code has it, at least 1 and at most 1024.0: a    *)
(* quotient of 1023.95 or more is rendered as "1024.0".                    *)

\* g tenths are the nearest tenths to rem / u (u = 1024^k; compared in
\* units of 1024 bytes where u is 1024^3, to stay within 32 bits)
C27_Nearest(g, rem, u) ==
    LET s == IF u > 1024 * 1024 THEN 1024 ELSE 1
        r == rem \div s
        v == u \div s
        slack == IF s = 1 THEN 0 ELSE 20
    IN  /\ 2 * (g * v - 10 * r) <= v + slack
        /\ 2 * (10 * r - g * v) <= v + slack

\* the rendering of b >= 1024: the tenths the text shows, if it has the
\* shape "<digits>.<digit> <unit>iB" with the unit of b and the nearest
\* tenths; -1 otherwise
C27_RenderedTenths(b, text) ==
    LET n == Len(text)
        k == CHOOSE k \in 1..3 : (b \div Power(1024, k)) \in 1..1023
        u == Power(1024, k)
        shaped == /\ n >= 7
                  /\ SubSeq(text, n - 3, n)
                        = <<" ", <<"K", "M", "G">>[k], "i", "B">>
                  /\ text[n - 4] \in Digits
                  /\ text[n - 5] = "."
                  /\ \A x \in 1..(n - 6) : text[x] \in Digits
                  /\ text[1] # "0"
        tenths == 10 * DecimalValue(SubSeq(text, 1, n - 6))
                     + DigitValue(text[n - 4])
    IN  IF shaped /\ tenths - 10 * (b \div u) \in 0..10
                  /\ C27_Nearest(tenths - 10 * (b \div u), b % u, u)
        THEN tenths ELSE -1

C27_Rendered ==
    call.fn = "bytesToHumanReadable" /\ call.returned /\ call.arg >= 0

C27_Original ==
    C27_Rendered =>
        IF call.arg < 1024
        THEN Text(call.result) = ToString(call.arg) \o " B"
        ELSE LET tenths == C27_RenderedTenths(call.arg, call.result)
             IN  tenths >= 10 /\ tenths < 10240

C27_UnitSelection ==
    C27_Rendered =>
        IF call.arg < 1024
        THEN Text(call.result) = ToString(call.arg) \o " B"
        ELSE LET tenths == C27_RenderedTenths(call.arg, call.result)
             IN  tenths >= 10 /\ tenths <= 10240

\* 1024^2 - 1 bytes were rendered as "1024.0 KiB"
C27_Witness ==
    /\ C27_Rendered
    /\ call.arg = 1024 * 1024 - 1
    /\ Text(call.result) = "1024.0 KiB"

----------------------------------------------------------------------------
(* C29: the defaults of the synthesized workload.  As claimed: the         *)
(* environment of the minecraft container has VERSION and TYPE set to the  *)
(* record's version and serverType, or to LATEST and VANILLA where they    *)
(* are empty, and likewise MAX_PLAYERS, DIFFICULTY and MODE set to the     *)
(* record's maxPlayers, difficulty and gamemode, or to 20, normal and      *)
(* survival where they are 0 or empty.                                     *)

\* the values the environment list gives to a name
C29_Values(env, name) ==
    { env[x].value : x \in { y \in 1..Len(env) : env[y].name = name } }

C29_Env == call.result.objects[3].manifest.containers[1].env

C29_VersionAndType ==
    LET spec == call.arg.spec
    IN  /\ C29_Values(C29_Env, "VERSION")
              = {IF spec.version = "" THEN "LATEST" ELSE spec.version}
        /\ C29_Values(C29_Env, "TYPE")
              = {IF spec.serverType = "" THEN "VANILLA" ELSE spec.serverType}
        /\ C29_Values(C29_Env, "MEMORY") = {spec.memory}

C29_Original ==
    Synthesized =>
        LET spec == call.arg.spec
        IN  /\ C29_VersionAndType
            /\ C29_Values(C29_Env, "MAX_PLAYERS")
                  = {IF spec.maxPlayers = 0 THEN "20"
                     ELSE ToString(spec.maxPlayers)}
            /\ C29_Values(C29_Env, "DIFFICULTY")
                  = {IF spec.difficulty = "" THEN "normal"
                     ELSE spec.difficulty}
            /\ C29_Values(C29_Env, "MODE")
                  = {IF spec.gamemode = "" THEN "survival" ELSE spec.gamemode}

(* C29 as the code has it: VERSION and TYPE are defaulted; MAX_PLAYERS,    *)
(* DIFFICULTY and MODE are passed through where the record sets them and   *)
(* are absent from the environment where it does not.                      *)
C29_Defaults ==
    Synthesized =>
        LET spec == call.arg.spec
        IN  /\ C29_VersionAndType
            /\ C29_Values(C29_Env, "MAX_PLAYERS")
                  = IF spec.maxPlayers = 0 THEN {}
                    ELSE {ToString(spec.maxPlayers)}
            /\ C29_Values(C29_Env, "DIFFICULTY")
                  = IF spec.difficulty = "" THEN {} ELSE {spec.difficulty}
            /\ C29_Values(C29_Env, "MODE")
                  = IF spec.gamemode = "" THEN {} ELSE {spec.gamemode}

\* a record with every optional field empty was synthesized: VERSION is
\* LATEST, TYPE is VANILLA, and the environment ends after MEMORY
C29_Witness ==
    /\ Synthesized
    /\ call.arg.spec.version = ""
    /\ call.arg.spec.serverType = ""
    /\ call.arg.spec.maxPlayers = 0
    /\ call.arg.spec.difficulty = ""
    /\ call.arg.spec.gamemode = ""
    /\ Len(C29_Env) = 4
    /\ C29_Env[2] = [name |-> "VERSION", value |-> "LATEST"]
    /\ C29_Env[3] = [name |-> "TYPE", value |-> "VANILLA"]

----------------------------------------------------------------------------
(* C30: the shape of the synthesized set.  For every record whose          *)
(* quantities parse, the five objects are one StatefulSet, one             *)
(* PersistentVolumeClaim, one Secret and two Services.  The StatefulSet    *)
(* has 1 replica, the containers minecraft and sftp in this order and one  *)
(* volume, backed by the claim <name>-data; the claim is the synthesized   *)
(* PersistentVolumeClaim, of the record's storageSize and with the one     *)
(* access mode ReadWriteOnce; each Service exposes exactly one port, 25565 *)
(* for minecraft and 22 for sftp; the memory request and the memory limit  *)
(* of the minecraft container are both the record's memory.                *)
C30_OfKind(kind) ==
    { i \in 1..5 : call.result.objects[i].manifest.kind = kind }

C30_Shape ==
    Synthesized =>
        LET made(i) == call.result.objects[i].manifest
            spec == call.arg.spec
            sts == made(3)
            pvc == made(2)
        IN  /\ C30_OfKind("StatefulSet") = {3}
            /\ C30_OfKind("PersistentVolumeClaim") = {2}
            /\ C30_OfKind("Service") = {4, 5}
            /\ sts.replicas = 1
            /\ Len(sts.containers) = 2
            /\ sts.containers[1].name = "minecraft"
            /\ sts.containers[2].name = "sftp"
            /\ Len(sts.volumes) = 1
            /\ sts.volumes[1].claimName = call.arg.name \o "-data"
            /\ sts.volumes[1].claimName = pvc.name
            /\ pvc.requests = [storage |-> spec.storageSize]
            /\ pvc.accessModes = <<"ReadWriteOnce">>
            /\ Len(made(4).ports) = 1
            /\ made(4).ports[1].port = 25565
            /\ Len(made(5).ports) = 1
            /\ made(5).ports[1].port = 22
            /\ sts.containers[1].requests
                  = <<[resource |-> "memory", quantity |-> spec.memory]>>
            /\ sts.containers[1].limits
                  = <<[resource |-> "memory", quantity |-> spec.memory]>>

\* the objects of the server "a-data" with 2Gi of memory and 5Gi of
\* storage were synthesized; its volume is backed by the claim a-data-data
C30_Witness ==
    /\ Synthesized
    /\ call.arg.name = "a-data"
    /\ call.arg.spec.memory = "2Gi"
    /\ call.arg.spec.storageSize = "5Gi"
    /\ call.result.objects[3].manifest.volumes[1].claimName = "a-data-data"
    /\ call.result.objects[3].manifest.containers[1].limits[1].quantity = "2Gi"

----------------------------------------------------------------------------
(* C31: the service type of the two network endpoints.  The Service        *)
(* synthesized by serviceForMinecraft and the Service synthesized by       *)
(* serviceForSFTP are both of type NodePort, for every record.             *)
C31_NodePort ==
    Synthesized =>
        /\ call.result.objects[4].manifest.type = "NodePort"
        /\ call.result.objects[5].manifest.type = "NodePort"

----------------------------------------------------------------------------
(* C32: Absent is a distinct signal.  As stated: in the get and the delete *)
(* path of the gateway a "not found" answer of the store is reported as    *)
(* the Absent outcome (404, not_found) and any other error of the store as *)
(* another outcome, and a pass of Reconcile whose fetch finds no record    *)
(* ends without an error while any other error of the fetch is returned.   *)
C32_Absent(response) == response.code = 404 /\ response.error = "not_found"

C32_StoreFailed ==
    /\ call.returned
    /\ call.fn \in {"GetServer", "DeleteServer"}
    /\ call.arg.name # ""
    /\ call.arg.store # "ok"

C32_ReconcilePath ==
    \A out \in {"NotFound", "StoreError"} :
        (AfterFetch(out, NoRecord).err = "") <=> (out = "NotFound")

C32_AbsentDistinct ==
    /\ C32_StoreFailed
          => (C32_Absent(call.result) <=> call.arg.store = "NotFound")
    /\ C32_ReconcilePath

\* C32, as the code has it: only the reconcile path tells not-found from
\* the other errors of the store.  GetServer reports every error of the
\* store, not-found or not, as 404 not_found; DeleteServer reports every
\* error of the store, not-found included, as 500 deletion_failed.
C32_AbsentInReconcileOnly ==
    /\ (C32_StoreFailed /\ call.fn = "GetServer") => C32_Absent(call.result)
    /\ (C32_StoreFailed /\ call.fn = "DeleteServer")
          => call.result = [code |-> 500, error |-> "deletion_failed"]
    /\ C32_ReconcilePath

\* the store is unreachable on a get, and the gateway has answered
C32_Witness ==
    /\ C32_StoreFailed
    /\ call.fn = "GetServer"
    /\ call.arg.store = "Unavailable"
    /\ C32_Absent(call.result)

----------------------------------------------------------------------------
(* C33: the environment of the game unit.  As stated: for every record the *)
(* environment of the minecraft container is the list EULA (true or        *)
(* false), VERSION, TYPE, MEMORY, then MAX_PLAYERS if and only if          *)
(* maxPlayers is not 0, then DIFFICULTY if and only if difficulty is not   *)
(* empty, then MODE if and only if gamemode is not empty, in that order,   *)
(* each with the value the record has for it.                              *)
C33_Entry(name, value) == [name |-> name, value |-> value]

C33_List(spec, version, serverType) ==
    << C33_Entry("EULA", IF spec.eula THEN "true" ELSE "false"),
       C33_Entry("VERSION", version),
       C33_Entry("TYPE", serverType),
       C33_Entry("MEMORY", spec.memory) >>
    \o (IF spec.maxPlayers # 0
        THEN <<C33_Entry("MAX_PLAYERS", ToString(spec.maxPlayers))>>
        ELSE <<>>)
    \o (IF spec.difficulty # ""
        THEN <<C33_Entry("DIFFICULTY", spec.difficulty)>> ELSE <<>>)
    \o (IF spec.gamemode # ""
        THEN <<C33_Entry("MODE", spec.gamemode)>> ELSE <<>>)

----------------------------------------------------------------------------
(* C34: quantities that do not parse.  A pass over a record whose memory   *)
(* or storageSize is empty or unparsable ends by returning an error or a   *)
(* result to its caller; no pass ends in a panic.                          *)
C34_Graceful == pc = "done" => result.err # "panic"

----------------------------------------------------------------------------
(* C35: validation of storageSize.  A create request whose storageSize is  *)
(* given and does not match ^[0-9]+[MGT]i$ is answered with a validation   *)
(* error (400) and no record is posted for it, as for a malformed memory.  *)
C35_Malformed(text) == text # <<>> /\ ~isValidMemoryFormat(text)

C35_StorageSizeValidated ==
    \A i \in 1..MaxRequests :
        LET h == handlers[i]
        IN  (h.pc = "done" /\ C35_Malformed(h.req.storageSize))
               => /\ h.resp.code = 400
                  /\ h.resp.error \in {"invalid_request", "invalid_memory",
                                       "invalid_storage_size"}
                  /\ h.calls = <<>>

----------------------------------------------------------------------------
(* C36: credential and memory propagation.  The Secret a pass creates      *)
(* holds the sftpUsername and sftpPassword of the record the pass works    *)
(* for, the sftp container of the StatefulSet it creates has the one       *)
(* argument "<sftpUsername>:<sftpPassword>:1000:1000:/data", and every     *)
(* successful status write leaves status.sftpUsername, status.sftpPassword *)
(* and status.allocatedMemory equal to the sftpUsername, sftpPassword and  *)
(* memory of the record's spec, whatever the live StatefulSet is.          *)
C36_Created(key) ==
    /\ pc = "create"
    /\ OwnedKeys(ServerName)[idx] = key
    /\ ops' = Logged("Create", key, "ok")

----------------------------------------------------------------------------
(* C37: creation order.  Reconcile works through Secret, storage claim,    *)
(* StatefulSet, game Service, file-access Service in this order.  Starting *)
(* from an empty store, with store calls failing at will and nobody but    *)
(* Reconcile creating or removing an object under the five names, the      *)
(* objects that exist are at every moment the first k of that order, for   *)
(* some k from 0 to 5.                                                      *)
C37_Existing ==
    { i \in 1..5 : objects[OwnedKeys(ServerName)[i]].exists }

----------------------------------------------------------------------------
(* C38: the status write is gated.  The status of a record is written      *)
(* only by the status update of a pass that before it, in the same pass,   *)
(* found or created each of the five owned objects and read the            *)
(* StatefulSet and the two Services back successfully.  A read-back that   *)
(* finds its object missing ends the pass with the not-found error, and    *)
(* the stored record, its status included, stays as it was.                *)
C38_Settled(log) ==
    /\ \A i \in 1..5 :
          \E n \in 1..Len(log) :
              /\ log[n].key = OwnedKeys(ServerName)[i]
              /\ log[n].op \in {"Get", "Create"}
              /\ log[n].out = "ok"
    /\ \A key \in {StatefulSetKey(ServerName), MinecraftSvcKey(ServerName),
                   SFTPSvcKey(ServerName)} :
          \E n \in 1..Len(log) :
              log[n] = [op |-> "ReadBack", key |-> key, out |-> "ok"]

C38_ReadBackStep ==
    /\ pc \in {"readSts", "readMinecraftSvc", "readSftpSvc"}
    /\ ops' # ops

C38_StatusGated ==
    [][ /\ (rec.exists /\ rec'.exists /\ rec'.uid = rec.uid
               /\ rec'.status # rec.status)
              => (pc = "statusUpdate" /\ C38_Settled(ops))
        /\ StatusWrite => C38_Settled(ops)
        /\ (C38_ReadBackStep /\ ~objects[ReadBackKey(pc)].exists)
              => /\ pc' = "done"
                 /\ result'.err # ""
                 /\ result'.requeueAfter = 0
                 /\ rec' = rec
      ]_vars

\* a pass created the game Service, somebody deleted it before the pass
\* read it back, and the pass has returned the not-found error
C38_Witness ==
    /\ pc = "done"
    /\ result.err = "NotFound"
    /\ LastOp = [op |-> "ReadBack", key |-> MinecraftSvcKey(ServerName),
                 out |-> "NotFound"]
    /\ \E n \in 1..Len(ops) :
          ops[n] = [op |-> "Create", key |-> MinecraftSvcKey(ServerName),
                    out |-> "ok"]
    /\ rec.exists
    /\ rec.status = NoStatus

----------------------------------------------------------------------------
(* C39: no lost update on the record.  The finalizer update and the status *)
(* write of a pass go to the store with the record as the pass fetched it  *)
(* (or as its own finalizer update left it).  If the stored record is no   *)
(* longer that one, because another writer has changed it, marked it for   *)
(* deletion or replaced it, the write is refused: the stored record stays  *)
(* as it is and the pass returns an error.  A write that changes the       *)
(* stored record is made by a pass holding exactly that record.            *)
C39_Write ==
    /\ pc \in {"addFinalizer", "removeFinalizer", "statusUpdate"}
    /\ ops' # ops

\* the pass holds the record as it is in the store
C39_HoldsStored ==
    /\ m.exists
    /\ rec.exists
    /\ m.uid = rec.uid
    /\ m.finalizers = rec.finalizers
    /\ m.deleting = rec.deleting
    /\ m.spec = rec.spec
    /\ m.status = rec.status

----------------------------------------------------------------------------
(* C40: Reconcile never changes the desired state.  The spec of a record   *)
(* stays, through every step of every pass, the one the record was stored  *)
(* with.  A step of a pass leaves the record as it is, or changes its      *)
(* finalizer list alone (the finalizer updates), or its status alone (the  *)
(* status write); removing the last finalizer of a record marked for       *)
(* deletion lets the store complete the deletion.                          *)
C40_SameRecord == rec.exists /\ rec'.exists /\ rec'.uid = rec.uid

C40_SpecUnchanged ==
    [][ /\ C40_SameRecord => rec'.spec = rec.spec
        /\ (PassStep /\ rec' # rec) =>
              \/ /\ pc \in {"addFinalizer", "removeFinalizer"}
                 /\ C40_SameRecord
                 /\ rec' = [rec EXCEPT !.finalizers = rec'.finalizers]
              \/ /\ pc = "statusUpdate"
                 /\ C40_SameRecord
                 /\ rec' = [rec EXCEPT !.status = rec'.status]
              \/ /\ pc = "removeFinalizer"
                 /\ rec.deleting
                 /\ rec' = NoRecord
      ]_vars

\* a record stored with empty optional fields has got its finalizer from a
\* pass, and its spec is as it was stored
C40_Witness ==
    /\ rec.exists
    /\ finalizerName \in rec.finalizers
    /\ rec.spec.version = ""
    /\ rec.spec \in RecordSpecs
    /\ pc = "done"

====
